---------------------------- MODULE Spec2Model ----------------------------
(***************************************************************************)
(* Session state engine of the Dataverse metadata extractor UI             *)
(* (Code/dataverse_metadata_ui.py).                                        *)
(*                                                                         *)
(* Logical names (tables, attributes) are sequences of tokens in which the *)
(* underscore is a token of its own, so that the attribute tree's item ids *)
(* f"{logical_name}_{logical}" and their parsing item_id.split('_', 1)[1]  *)
(* are modelled by what they do.  Form and view ids and display names are  *)
(* strings.  Python dicts are functions whose DOMAIN is the key set, lists *)
(* are sequences, None is the string "None" (ids, names) or the empty      *)
(* sequence (logical names, tree selections).                              *)
(*                                                                         *)
(* Every handler of the application is an operator from a state record to  *)
(* a state record; the handlers a handler calls are composed inside it, so *)
(* an action is the whole handler.                                         *)
(***************************************************************************)
EXTENDS Integers, Sequences, FiniteSets, TLC

VARIABLES
    settings,             \* AppSettings (in memory, as last saved)
    loaded_settings,      \* what AppSettings.load returned in __init__
    loaded_cache,         \* what MetadataCache.load returned in __init__
    cache,                \* MetadataCache
    client,               \* self.client is not None
    solutions,            \* self.solutions has been loaded
    solution_values,      \* self.solution_values has been filled
    tables,               \* self.tables
    selected_tables,      \* keys of self.selected_tables, in dict order
    table_forms,
    table_views,
    table_attributes,
    selected_attributes,
    selected_views,
    table_load_state,
    url_var,
    solution_var,
    project_var,
    dialog,               \* the table selector: "none", "open", "closed"
    combo_values,         \* solution_combo['values'] is filled
    load_tables_btn,      \* "none", "normal", "disabled"
    connect_btn,          \* "normal", "disabled"
    export_btn,           \* "normal", "disabled"
    exported,             \* the files of the output folder
    tables_tree,          \* rows of the dialog's table list
    selected_tree,        \* [children, values, selection]
    select_event,         \* a <<TreeviewSelect>> event is queued
    attr_tree,            \* item ids shown in the attribute tree
    filter_editor,        \* table whose view editor is due or shown
    pending,              \* worker tasks and queued callbacks
    raised,               \* the last handler ended in an exception
    disk,                 \* "ok", "denied" or "full"
    cache_file,           \* the cache file on disk
    settings_file,        \* the settings file on disk
    superseded,           \* fetches in flight for a table removed since
    exportable,           \* what the store held since the export began
    user_ops              \* user actions taken so far

vars == << settings, loaded_settings, loaded_cache, cache, client, solutions,
           solution_values, tables, selected_tables, table_forms,
           table_views, table_attributes, selected_attributes,
           selected_views, table_load_state, url_var, solution_var,
           project_var, dialog, combo_values, load_tables_btn, connect_btn,
           export_btn, exported, tables_tree,
           selected_tree, select_event, attr_tree, filter_editor, pending,
           raised, settings_file,
           cache_file,
           disk, superseded, exportable, user_ops >>

---------------------------------------------------------------------------
(* Bounds of the model *)

MaxUserOps == 4      \* user actions per session
MaxPending == 3      \* worker tasks and callbacks in flight at once

---------------------------------------------------------------------------
(* Generic helpers for dicts, lists and names *)

None == "None"
NoDict == << >>

Put(d, k, v) == [x \in (DOMAIN d) \cup {k} |-> IF x = k THEN v ELSE d[x]]
Del(d, k) == [x \in (DOMAIN d) \ {k} |-> d[x]]
Get(d, k, default) == IF k \in DOMAIN d THEN d[k] ELSE default

Range(seq) == {seq[i] : i \in 1..Len(seq)}

\* next((x for x in seq if P(x)), default)
FirstWhere(seq, P(_), default) ==
    IF \E i \in 1..Len(seq) : P(seq[i])
    THEN seq[CHOOSE i \in 1..Len(seq) :
                 P(seq[i]) /\ \A j \in 1..(i - 1) : ~P(seq[j])]
    ELSE default

\* str.split(sep, 1)[1] on a token sequence: what follows the first sep
AfterFirst(name, sep) ==
    LET i == CHOOSE j \in 1..Len(name) :
                 name[j] = sep /\ \A h \in 1..(j - 1) : name[h] # sep
    IN SubSeq(name, i + 1, Len(name))

\* str.split(sep)[0] on a token sequence: what precedes the first sep
BeforeFirst(name, sep) ==
    IF sep \in Range(name)
    THEN LET i == CHOOSE j \in 1..Len(name) :
                      name[j] = sep /\ \A h \in 1..(j - 1) : name[h] # sep
         IN SubSeq(name, 1, i - 1)
    ELSE name

\* str.lower() on one token
LowerToken(t) ==
    CASE t = "Name" -> "name"
      [] t = "CreatedOn" -> "createdon"
      [] OTHER -> t

Lower(name) == [i \in 1..Len(name) |-> LowerToken(name[i])]

---------------------------------------------------------------------------
(* The remote catalog: what the Dataverse client returns when a call       *)
(* succeeds.  Two tables, one without and one with an underscore in its    *)
(* logical name (every custom table has a publisher prefix).               *)

Account == << "account" >>
Project == << "new", "_", "project" >>
Keys == {Account, Project}

AccountId == << "accountid" >>
AccountName == << "name" >>
CreatedOn == << "createdon" >>
CustomField == << "custom", "_", "field" >>
ProjectId == << "new", "_", "projectid" >>
ProjectName == << "new", "_", "name" >>
StateCode == << "statecode" >>
LegacyField == << "legacy" >>

Url == "https://org.crm.dynamics.com"
ProjectTitle == "Sales"
Sol == << "sol" >>
SolCombo == << "sol", " - ", "Solution" >>   \* f"{uniquename} - {friendlyname}"
\* the combobox entry of a second solution, which holds no tables
OtherCombo == << "other", " - ", "Other" >>

\* get_solution_tables: the table records, sorted by display name
SolutionTables == << Account, Project >>

PrimaryIdAttribute(k) == IF k = Account THEN AccountId ELSE ProjectId
PrimaryNameAttribute(k) == IF k = Account THEN AccountName ELSE ProjectName

\* get_entity_attributes: the LogicalName of each attribute, in listing order
EntityAttributes(k) ==
    IF k = Account
    THEN << AccountId, CreatedOn, CustomField, AccountName >>
    ELSE << ProjectId, ProjectName, StateCode >>

\* get_entity_forms(include_xml=True), ordered by name; formxml is the list
\* of datafieldname values of the markup, the empty list an empty blob
EntityForms(k) ==
    IF k = Account
    THEN << [formid |-> "F2", name |-> "Information",
             formxml |-> << AccountName, CustomField >>],
            [formid |-> "F3", name |-> "Main",
             formxml |-> << << "Name" >>, << "CreatedOn" >> >>] >>
    ELSE << [formid |-> "G1", name |-> "Main", formxml |-> << >>],
            [formid |-> "G2", name |-> "Main",
             formxml |-> << ProjectName, StateCode >>] >>

\* get_entity_views, ordered by name
EntityViews(k) ==
    IF k = Account
    THEN << [savedqueryid |-> "V1", name |-> "Active", isdefault |-> FALSE],
            [savedqueryid |-> "V2", name |-> "All", isdefault |-> TRUE] >>
    ELSE << [savedqueryid |-> "W1", name |-> "Mine", isdefault |-> FALSE],
            [savedqueryid |-> "W2", name |-> "Mine", isdefault |-> FALSE] >>

\* get_form_xml(form_id): the detail blob of one form
FormXml(form_id) ==
    LET all == EntityForms(Account) \o EntityForms(Project)
        hit == CHOOSE i \in 1..Len(all) : all[i].formid = form_id
    IN all[hit].formxml

\* DataverseClient.extract_fields_from_form_xml
extract_fields_from_form_xml(form_xml) ==
    {Lower(form_xml[i]) : i \in 1..Len(form_xml)}

important_fields ==
    { << "createdon" >>, << "modifiedon" >>, << "createdby" >>,
      << "modifiedby" >>, << "ownerid" >>, << "statecode" >>,
      << "statuscode" >> }

---------------------------------------------------------------------------
(* The durable records as a session finds them *)

\* what a file of the application directory holds: no file, a file that
\* cannot be opened, text that is not JSON, a JSON array, or a JSON object
NoFile == [kind |-> "missing", data |-> << >>]
Unreadable == [kind |-> "unreadable", data |-> << >>]
NotJson == [kind |-> "text", data |-> << >>]
JsonArray == [kind |-> "array", data |-> << >>]

\* json.dump(asdict(self), f)
JsonOf(record) == [kind |-> "object", data |-> record]

DefaultSettings ==
    [environment_url |-> "", project_name |-> "", last_solution |-> << >>,
     selected_tables |-> << >>, table_forms |-> NoDict,
     table_views |-> NoDict, table_attributes |-> NoDict]

\* written by an earlier session; every saved reference still exists upstream
\* except Project's custom_field
SavedSettings ==
    [environment_url |-> Url, project_name |-> ProjectTitle,
     last_solution |-> Sol,
     selected_tables |-> << Account, Project >>,
     table_forms |-> (Account :> "F3" @@ Project :> "G1"),
     table_views |-> (Account :> "V1" @@ Project :> "W1"),
     table_attributes |->
         (Account :> {AccountId, AccountName, CustomField}
          @@ Project :> {ProjectId, CustomField})]

\* written by an earlier session against an older catalog: the saved form,
\* view and one saved attribute of Account no longer exist upstream
StaleSettings ==
    [environment_url |-> Url, project_name |-> ProjectTitle,
     last_solution |-> Sol,
     selected_tables |-> << Account >>,
     table_forms |-> (Account :> "F1"),
     table_views |-> (Account :> "V9"),
     table_attributes |-> (Account :> {AccountId, AccountName, LegacyField})]

\* written by a session that connected and was closed before a solution was
\* chosen
ConnectedSettings ==
    [environment_url |-> Url, project_name |-> "", last_solution |-> << >>,
     selected_tables |-> << >>, table_forms |-> NoDict,
     table_views |-> NoDict, table_attributes |-> NoDict]

SettingsAtStart == {DefaultSettings, SavedSettings, StaleSettings}

EmptyCache ==
    [environment_url |-> "", solution_name |-> << >>, tables |-> << >>,
     table_data |-> << >>, table_forms |-> NoDict, table_views |-> NoDict,
     table_attributes |-> NoDict]

\* as _save_cache wrote it once Account's metadata had been loaded
AccountCache ==
    [environment_url |-> Url, solution_name |-> Sol,
     tables |-> SolutionTables, table_data |-> << Account >>,
     table_forms |-> (Account :> EntityForms(Account)),
     table_views |-> (Account :> EntityViews(Account)),
     table_attributes |-> (Account :> EntityAttributes(Account))]

\* as _save_cache wrote it after the forms and views fetches of both tables
\* had failed
OfflineCache ==
    [environment_url |-> Url, solution_name |-> Sol,
     tables |-> SolutionTables, table_data |-> << Account, Project >>,
     table_forms |-> (Account :> << >> @@ Project :> << >>),
     table_views |-> (Account :> << >> @@ Project :> << >>),
     table_attributes |-> (Account :> EntityAttributes(Account)
                           @@ Project :> EntityAttributes(Project))]

\* as _save_cache wrote it after the forms and views fetch of Account, the
\* only table selected, had failed
OfflineAccountCache ==
    [environment_url |-> Url, solution_name |-> Sol,
     tables |-> SolutionTables, table_data |-> << Account >>,
     table_forms |-> (Account :> << >>),
     table_views |-> (Account :> << >>),
     table_attributes |-> (Account :> EntityAttributes(Account))]

\* cls(**data): a keyword that is not a field is a TypeError
Accepts(default, file) ==
    file.kind = "object" /\ DOMAIN file.data \subseteq DOMAIN default

FromDict(default, data) ==
    [f \in DOMAIN default |->
        IF f \in DOMAIN data THEN data[f] ELSE default[f]]

AppSettings_load_lenient(file) ==
    IF file.kind = "object" THEN FromDict(DefaultSettings, file.data)
    ELSE DefaultSettings

\* AppSettings.load
AppSettings_load(file) ==
    IF Accepts(DefaultSettings, file)
    THEN FromDict(DefaultSettings, file.data)
    ELSE DefaultSettings

\* MetadataCache.load
MetadataCache_load(file) ==
    IF Accepts(EmptyCache, file) THEN FromDict(EmptyCache, file.data)
    ELSE EmptyCache

CacheAtStart == {EmptyCache, AccountCache}

\* the pairs of files a session starts from
SessionsAtStart ==
    (SettingsAtStart \X CacheAtStart)
        \cup {<< SavedSettings, OfflineCache >>,
              << ConnectedSettings, AccountCache >>}

\* a settings file and a cache file written by another version of the
\* program, with a field this one does not have
ForeignSettingsFile == JsonOf(SavedSettings @@ ("theme" :> "dark"))
ForeignCacheFile == JsonOf(AccountCache @@ ("version" :> "2"))

\* the file that load reads a record from
FileOf(record) ==
    IF record \in {DefaultSettings, EmptyCache} THEN NoFile
    ELSE JsonOf(record)

DamagedAtStart ==
    {<< Unreadable, NoFile >>, << NotJson, NotJson >>,
     << JsonArray, JsonOf(AccountCache) >>,
     << ForeignSettingsFile, ForeignCacheFile >>,
     << JsonOf(SavedSettings), Unreadable >>}

\* the sessions followed on a disk whose writes can fail
FilesOnFailingDisk ==
    {<< NoFile, NoFile >>,
     << JsonOf(StaleSettings), NoFile >>,
     << JsonOf(SavedSettings), JsonOf(OfflineCache) >>}

\* the settings file and the cache file a session finds
FilesAtStart ==
    {<< FileOf(p[1]), FileOf(p[2]) >> : p \in SessionsAtStart}
        \cup DamagedAtStart

---------------------------------------------------------------------------
(* The state as a record, and worker tasks *)

St ==
    [settings |-> settings, loaded_settings |-> loaded_settings,
     loaded_cache |-> loaded_cache, cache |-> cache, client |-> client,
     solutions |-> solutions,
     solution_values |-> solution_values, tables |-> tables,
     selected_tables |-> selected_tables, table_forms |-> table_forms,
     table_views |-> table_views, table_attributes |-> table_attributes,
     selected_attributes |-> selected_attributes,
     selected_views |-> selected_views,
     table_load_state |-> table_load_state, url_var |-> url_var,
     solution_var |-> solution_var, project_var |-> project_var,
     dialog |-> dialog,
     combo_values |-> combo_values, load_tables_btn |-> load_tables_btn,
     connect_btn |-> connect_btn, export_btn |-> export_btn,
     exported |-> exported, tables_tree |-> tables_tree,
     selected_tree |-> selected_tree, select_event |-> select_event,
     attr_tree |-> attr_tree, filter_editor |-> filter_editor,
     pending |-> pending, raised |-> raised,
     settings_file |-> settings_file, cache_file |-> cache_file,
     disk |-> disk,
     user_ops |-> user_ops]

\* a worker thread with the callback it hands to root.after; pending maps
\* each task to the number of its copies in flight
Task(type, keys, arg) == [type |-> type, keys |-> keys, arg |-> arg]

BagAdd(b, e) ==
    IF e \in DOMAIN b THEN [b EXCEPT ![e] = @ + 1] ELSE (e :> 1) @@ b

BagRemove(b, e) ==
    IF b[e] = 1 THEN [x \in (DOMAIN b) \ {e} |-> b[x]]
    ELSE [b EXCEPT ![e] = @ - 1]

RECURSIVE BagSize(_)
BagSize(b) ==
    IF DOMAIN b = {} THEN 0
    ELSE LET e == CHOOSE x \in DOMAIN b : TRUE
         IN b[e] + BagSize([x \in (DOMAIN b) \ {e} |-> b[x]])

Start(s, task) == [s EXCEPT !.pending = BagAdd(@, task)]

InTable(s, k) == k \in Range(s.selected_tables)

---------------------------------------------------------------------------
(* Helpers of the application *)

is_valid_for_any_tables(c, environment_url, solution_name) ==
    /\ c.environment_url = environment_url
    /\ c.solution_name = solution_name

\* MetadataCache.is_valid_for
is_valid_for(c, environment_url, solution_name) ==
    /\ c.environment_url = environment_url
    /\ c.solution_name = solution_name
    /\ Len(c.tables) > 0

_get_required_attributes(s, logical_name) ==
    IF InTable(s, logical_name)
    THEN {PrimaryIdAttribute(logical_name), PrimaryNameAttribute(logical_name)}
    ELSE {}

NoFormNames == {"(not loaded)", "(loading...)", "(no forms)"}

\* the form id a row's Form column stands for: the first form of that name
FormIdOfRow(s, logical_name) ==
    LET selected_form_name == s.selected_tree.values[logical_name].form
        forms == Get(s.table_forms, logical_name, << >>)
        Named(f) == f.name = selected_form_name
    IN IF selected_form_name \in NoFormNames THEN None
       ELSE FirstWhere(forms, Named, [formid |-> None]).formid

_get_selected_forms(s) ==
    LET rows == {k \in Range(s.selected_tree.children) :
                     FormIdOfRow(s, k) # None}
    IN [k \in rows |-> FormIdOfRow(s, k)]

SolutionOf(sv) == BeforeFirst(sv, " - ")

\* what open(path, 'w') and json.dump leave of a file: a directory that
\* cannot be written leaves it as it was, a full disk leaves it cut short
Written(file, record, disk_state) ==
    CASE disk_state = "denied" -> file
      [] disk_state = "full" -> NotJson
      [] OTHER -> JsonOf(record)

AppSettings_save_raising(s) ==
    IF s.disk \in {"denied", "full"} THEN [s EXCEPT !.raised = TRUE]
    ELSE [s EXCEPT !.settings_file = JsonOf(s.settings)]

\* AppSettings.save
AppSettings_save(s) ==
    [s EXCEPT !.settings_file = Written(@, s.settings, s.disk)]

\* MetadataCache.save with the fault of a write overtaken by an earlier one:
\* the file keeps what the earlier write put
MetadataCache_save_overtaken(s) == s

\* MetadataCache.save
MetadataCache_save(s) ==
    [s EXCEPT !.cache_file = Written(@, s.cache, s.disk)]

_save_settings(s) ==
    AppSettings_save(
        [s EXCEPT !.settings =
            [environment_url |-> s.url_var,
             project_name |-> s.project_var,
             last_solution |->
                 IF s.solution_var # << >> THEN SolutionOf(s.solution_var)
                 ELSE << >>,
             selected_tables |-> s.selected_tables,
             table_forms |-> _get_selected_forms(s),
             table_views |-> s.selected_views,
             table_attributes |-> s.selected_attributes]])

_autosave(s) == _save_settings(s)

_save_cache(s) ==
    LET env_url == s.url_var
        solution == IF s.solution_var # << >> THEN SolutionOf(s.solution_var)
                    ELSE s.settings.last_solution
    IN IF env_url = "" \/ solution = << >> THEN s
       ELSE MetadataCache_save(
                [s EXCEPT !.cache =
                    [environment_url |-> env_url, solution_name |-> solution,
                     tables |-> s.tables, table_data |-> s.selected_tables,
                     table_forms |-> s.table_forms,
                     table_views |-> s.table_views,
                     table_attributes |-> s.table_attributes]])

ItemId(logical_name, logical) == logical_name \o << "_" >> \o logical

\* the attribute tree is rebuilt; no text filter, show mode 'all'
_update_attributes_display(s, logical_name) ==
    [s EXCEPT !.attr_tree =
        {ItemId(logical_name, a) :
             a \in Range(Get(s.table_attributes, logical_name, << >>))}]

---------------------------------------------------------------------------
(* Loading: tables, attributes, forms and views *)

NewLoadState(attrs_loading) ==
    [attrs_loaded |-> FALSE, forms_loaded |-> FALSE, views_loaded |-> FALSE,
     attrs_loading |-> attrs_loading, forms_loading |-> FALSE,
     views_loading |-> FALSE]

NoLoadState ==
    [attrs_loaded |-> FALSE, forms_loaded |-> FALSE, views_loaded |-> FALSE,
     attrs_loading |-> FALSE, forms_loading |-> FALSE,
     views_loading |-> FALSE]

TreeInsert(tree, logical_name, form_name, view_name) ==
    [tree EXCEPT
        !.children = Append(@, logical_name),
        !.values = Put(@, logical_name,
                       [form |-> form_name, view |-> view_name])]

\* the names of logical_names whose forms are neither loaded nor loading,
\* in order
RECURSIVE FormsToLoad(_, _)
FormsToLoad(s, logical_names) ==
    IF logical_names = << >> THEN << >>
    ELSE LET k == Head(logical_names)
             state == Get(s.table_load_state, k, NoLoadState)
             rest == FormsToLoad(s, Tail(logical_names))
         IN IF ~state.forms_loaded /\ ~state.forms_loading
            THEN << k >> \o rest ELSE rest

\* _load_forms_views_bulk with the fault of marking every table as loading
_load_forms_views_bulk_marking_all(s, logical_names) ==
    LET tables_to_load == FormsToLoad(s, logical_names)
        marked ==
            [k \in DOMAIN s.table_load_state |->
                [s.table_load_state[k] EXCEPT
                    !.forms_loading = TRUE, !.views_loading = TRUE]]
    IN IF tables_to_load = << >> THEN s
       ELSE Start([s EXCEPT !.table_load_state = marked],
                  Task("bulk_fv", Range(tables_to_load), None))

_load_forms_views_bulk(s, logical_names) ==
    LET tables_to_load == FormsToLoad(s, logical_names)
        marked ==
            [k \in DOMAIN s.table_load_state |->
                IF k \in Range(tables_to_load)
                THEN [s.table_load_state[k] EXCEPT
                          !.forms_loading = TRUE, !.views_loading = TRUE]
                ELSE s.table_load_state[k]]
    IN IF tables_to_load = << >> THEN s
       ELSE Start([s EXCEPT !.table_load_state = marked],
                  Task("bulk_fv", Range(tables_to_load), None))

_on_selected_table_click(s) ==
    LET selection == s.selected_tree.selection
        logical_name == selection[1]
        state == Get(s.table_load_state, logical_name, NoLoadState)
        s1 == IF ~state.forms_loaded /\ ~state.forms_loading
              THEN _load_forms_views_bulk(s, << logical_name >>)
              ELSE s
    IN IF selection = << >> THEN s
       ELSE IF ~InTable(s, logical_name) THEN s
       ELSE _update_attributes_display(s1, logical_name)

\* self.selected_tree.selection_set(item): the row is selected and a
\* <<TreeviewSelect>> event is queued
selection_set(s, item) ==
    [s EXCEPT !.selected_tree.selection = << item >>, !.select_event = TRUE]

RECURSIVE AddRows(_, _, _)
AddRows(s, tbls, attrs_loading) ==
    IF tbls = << >> THEN s
    ELSE LET logical_name == Head(tbls)
             s1 == IF InTable(s, logical_name) THEN s
                   ELSE [s EXCEPT
                       !.selected_tables = Append(@, logical_name),
                       !.selected_attributes = Put(@, logical_name, {}),
                       !.table_load_state =
                           Put(@, logical_name, NewLoadState(attrs_loading)),
                       !.selected_tree =
                           TreeInsert(@, logical_name,
                               IF attrs_loading THEN "(loading...)"
                               ELSE "(not loaded)",
                               IF attrs_loading THEN "(loading...)"
                               ELSE "(not loaded)")]
         IN AddRows(s1, Tail(tbls), attrs_loading)

_add_tables_bulk(s, tbls) ==
    Start(AddRows(s, tbls, TRUE), Task("bulk_attrs", Range(tbls), None))

_load_attributes_for_table(s, logical_name) ==
    IF logical_name \notin DOMAIN s.table_load_state THEN s
    ELSE IF s.table_load_state[logical_name].attrs_loading THEN s
    ELSE Start([s EXCEPT
                   !.table_load_state[logical_name].attrs_loading = TRUE],
               Task("attrs", {logical_name}, None))

_add_table_to_selection(s, logical_name) ==
    IF InTable(s, logical_name) THEN s
    ELSE _load_attributes_for_table(
             AddRows(s, << logical_name >>, FALSE), logical_name)

\* the selection an attribute result leaves: required keys, then the saved
\* keys, or else the standard fields among the fetched attributes
StandardAttributes(attributes) ==
    {a \in Range(attributes) : Lower(a) \in important_fields}

\* RestoredAttributes with the fault of adding the standard fields to a
\* saved selection too
RestoredAttributes_with_defaults(s, logical_name, attributes) ==
    Get(s.settings.table_attributes, logical_name, {})
        \cup StandardAttributes(attributes)

RestoredAttributes(s, logical_name, attributes) ==
    LET saved_attrs == Get(s.settings.table_attributes, logical_name, {})
    IN IF saved_attrs # {} THEN saved_attrs
       ELSE StandardAttributes(attributes)

---------------------------------------------------------------------------
(* Callbacks of the attribute loads.  A bulk result is a sequence of       *)
(* [key, data] in completion order; a failed fetch contributed [].         *)

\* BulkAttrsOne with the fault of not skipping a table that was removed
BulkAttrsOne_unguarded(s, logical_name, attributes) ==
    LET s1 == [s EXCEPT
                !.table_attributes = Put(@, logical_name, attributes),
                !.table_load_state =
                    IF logical_name \in DOMAIN @
                    THEN [@ EXCEPT ![logical_name].attrs_loaded = TRUE,
                                   ![logical_name].attrs_loading = FALSE]
                    ELSE @]
        required_attrs == _get_required_attributes(s1, logical_name)
    IN [s1 EXCEPT !.selected_attributes =
           Put(@, logical_name,
               required_attrs
                   \cup RestoredAttributes(s1, logical_name, attributes))]

BulkAttrsOne(s, logical_name, attributes) ==
    LET s1 == [s EXCEPT
                !.table_attributes = Put(@, logical_name, attributes),
                !.table_load_state =
                    IF logical_name \in DOMAIN @
                    THEN [@ EXCEPT ![logical_name].attrs_loaded = TRUE,
                                   ![logical_name].attrs_loading = FALSE]
                    ELSE @]
        required_attrs == _get_required_attributes(s1, logical_name)
    IN IF ~InTable(s, logical_name) THEN s
       ELSE [s1 EXCEPT !.selected_attributes =
                Put(@, logical_name,
                    required_attrs
                        \cup RestoredAttributes(s1, logical_name, attributes))]

\* BulkAttrsLoop with the fault of giving up at the first failed fetch
RECURSIVE BulkAttrsLoop_aborting(_, _)
BulkAttrsLoop_aborting(s, results) ==
    IF results = << >> THEN s
    ELSE IF Head(results).data = << >> THEN s
    ELSE BulkAttrsLoop_aborting(
             BulkAttrsOne(s, Head(results).key, Head(results).data),
             Tail(results))

RECURSIVE BulkAttrsLoop(_, _)
BulkAttrsLoop(s, results) ==
    IF results = << >> THEN s
    ELSE BulkAttrsLoop(BulkAttrsOne(s, Head(results).key, Head(results).data),
                       Tail(results))

ResultKeys(results) == [i \in 1..Len(results) |-> results[i].key]

_on_bulk_attributes_loaded(s, results) ==
    LET s1 == BulkAttrsLoop(s, results)
        selection == s1.selected_tree.selection
        s2 == IF selection # << >>
                 /\ selection[1] \in Range(ResultKeys(results))
              THEN _update_attributes_display(s1, selection[1])
              ELSE s1
    IN _autosave(_load_forms_views_bulk(s2, ResultKeys(results)))

_on_attributes_loaded(s, logical_name, attributes) ==
    LET s1 == [s EXCEPT
                !.table_attributes = Put(@, logical_name, attributes)]
        s2 == [s1 EXCEPT
                !.table_load_state[logical_name].attrs_loaded = TRUE,
                !.table_load_state[logical_name].attrs_loading = FALSE]
        required_attrs == _get_required_attributes(s2, logical_name)
        s3 == [s2 EXCEPT !.selected_attributes[logical_name] =
                @ \cup required_attrs
                  \cup RestoredAttributes(s2, logical_name, attributes)]
        selection == s3.selected_tree.selection
        children == s3.selected_tree.children
        s4 == IF selection = << logical_name >>
              THEN _update_attributes_display(s3, logical_name)
              ELSE IF selection = << >> /\ children # << >>
              THEN _on_selected_table_click(selection_set(s3, children[1]))
              ELSE s3
    IN IF ~InTable(s, logical_name) THEN s
       ELSE IF logical_name \notin DOMAIN s1.table_load_state
       THEN [s1 EXCEPT !.raised = TRUE]
       ELSE IF logical_name \notin DOMAIN s2.selected_attributes
       THEN [s2 EXCEPT !.raised = TRUE]
       ELSE _autosave(_load_forms_views_bulk(s4, << logical_name >>))

_on_attributes_error(s, logical_name) ==
    IF logical_name \in DOMAIN s.table_load_state
    THEN [s EXCEPT !.table_load_state[logical_name].attrs_loading = FALSE]
    ELSE s

---------------------------------------------------------------------------
(* Callback of the forms and views loads *)

\* SelectForm with the fault of falling back to the last form
SelectForm_last(forms, saved_form_id) ==
    LET Saved(f) == f.formid = saved_form_id
    IN FirstWhere(forms, Saved, forms[Len(forms)])

\* SelectForm with the fault of taking the form that follows the saved one
SelectForm_after_saved(forms, saved_form_id) ==
    LET Saved(i) == forms[i].formid = saved_form_id
    IN IF \E i \in 1..(Len(forms) - 1) : Saved(i)
       THEN forms[(CHOOSE i \in 1..(Len(forms) - 1) : Saved(i)) + 1]
       ELSE forms[1]

\* the name shown for the form: the saved one if fetched, else the first
SelectForm(forms, saved_form_id) ==
    LET Saved(f) == f.formid = saved_form_id
    IN FirstWhere(forms, Saved, forms[1])

\* the saved view if fetched, else the first default view, else the first
SelectView(views, saved_view_id) ==
    LET Saved(v) == v.savedqueryid = saved_view_id
        Default(v) == v.isdefault
    IN FirstWhere(views, Saved, FirstWhere(views, Default, views[1]))

BulkFormsViewsOne(s, logical_name, forms, views) ==
    LET form_name ==
            IF forms = << >> THEN "(no forms)"
            ELSE SelectForm(forms,
                     Get(s.settings.table_forms, logical_name, None)).name
        sel_view == SelectView(views,
                        Get(s.settings.table_views, logical_name, None))
        view_name == IF views = << >> THEN "(no views)" ELSE sel_view.name
    IN IF ~InTable(s, logical_name) THEN s
       ELSE [s EXCEPT
                !.table_forms = Put(@, logical_name, forms),
                !.table_views = Put(@, logical_name, views),
                !.table_load_state =
                    IF logical_name \in DOMAIN @
                    THEN [@ EXCEPT ![logical_name].forms_loaded = TRUE,
                                   ![logical_name].views_loaded = TRUE,
                                   ![logical_name].forms_loading = FALSE,
                                   ![logical_name].views_loading = FALSE]
                    ELSE @,
                !.selected_views =
                    IF views = << >> THEN @
                    ELSE Put(@, logical_name, sel_view.savedqueryid),
                !.selected_tree.values[logical_name] =
                    [form |-> form_name, view |-> view_name]]

RECURSIVE BulkFormsViewsLoop(_, _)
BulkFormsViewsLoop(s, results) ==
    IF results = << >> THEN s
    ELSE BulkFormsViewsLoop(
             BulkFormsViewsOne(s, Head(results).key, Head(results).data.forms,
                               Head(results).data.views),
             Tail(results))

\* variant: the forms/views callback drops its results
_on_bulk_forms_views_loaded_dropping(s, results) == s

_on_bulk_forms_views_loaded(s, results) ==
    LET s1 == _autosave(_save_cache(BulkFormsViewsLoop(s, results)))
        children == s1.selected_tree.children
    IN IF children # << >> /\ s1.selected_tree.selection = << >>
       THEN _on_selected_table_click(selection_set(s1, children[1]))
       ELSE s1

---------------------------------------------------------------------------
(* Handlers of the main window *)

TreeDelete(tree, item_id) ==
    [children |-> SelectSeq(tree.children, LAMBDA k : k # item_id),
     values |-> Del(tree.values, item_id),
     selection |-> SelectSeq(tree.selection, LAMBDA k : k # item_id)]

RemoveOne(s, item_id) ==
    [s EXCEPT
        !.selected_tables = SelectSeq(@, LAMBDA k : k # item_id),
        !.table_forms = Del(@, item_id),
        !.table_views = Del(@, item_id),
        !.table_attributes = Del(@, item_id),
        !.selected_attributes = Del(@, item_id),
        !.selected_views = Del(@, item_id),
        !.table_load_state = Del(@, item_id),
        !.selected_tree = TreeDelete(@, item_id)]

_on_remove_tables(s) ==
    LET selection == s.selected_tree.selection
    IN IF selection = << >> THEN s
       ELSE _autosave([RemoveOne(s, selection[1]) EXCEPT !.attr_tree = {}])

Toggle(selected, attr_name) ==
    IF attr_name \in selected THEN selected \ {attr_name}
    ELSE selected \cup {attr_name}

\* the attribute name an item id of the attribute tree stands for
AttrOfItem(item_id) == AfterFirst(item_id, "_")

_on_attr_click(s, item_id) ==
    LET table_selection == s.selected_tree.selection
        logical_name == table_selection[1]
        attr_name == AttrOfItem(item_id)
        required == _get_required_attributes(s, logical_name)
        mine == Get(s.selected_attributes, logical_name, {})
        s1 == [s EXCEPT !.selected_attributes =
                  Put(@, logical_name, Toggle(mine, attr_name))]
    IN IF table_selection = << >> THEN s
       ELSE IF "_" \notin Range(item_id) THEN s
       ELSE IF attr_name \in required THEN s
       ELSE _autosave(_update_attributes_display(s1, logical_name))

\* the items are toggled one after the other; required ones are skipped
RECURSIVE ToggleAll(_, _, _)
ToggleAll(selected, attr_names, required) ==
    IF attr_names = {} THEN selected
    ELSE LET a == CHOOSE x \in attr_names : TRUE
         IN ToggleAll(IF a \in required THEN selected
                      ELSE Toggle(selected, a),
                      attr_names \ {a}, required)

_on_attr_toggle(s, selection) ==
    LET table_selection == s.selected_tree.selection
        logical_name == table_selection[1]
        required == _get_required_attributes(s, logical_name)
        attr_names == {AttrOfItem(i) : i \in
                          {j \in selection : "_" \in Range(j)}}
        touched == attr_names \ required
        mine == Get(s.selected_attributes, logical_name, {})
        s1 == IF touched = {} THEN s
              ELSE [s EXCEPT !.selected_attributes =
                       Put(@, logical_name,
                           ToggleAll(mine, attr_names, required))]
    IN IF selection = {} THEN s
       ELSE IF table_selection = << >> THEN s
       ELSE _autosave(_update_attributes_display(s1, logical_name))

_on_select_all_attrs(s) ==
    LET selection == s.selected_tree.selection
        logical_name == selection[1]
        mine == Get(s.selected_attributes, logical_name, {})
        shown == {AttrOfItem(i) : i \in
                     {j \in s.attr_tree : "_" \in Range(j)}}
        s1 == [s EXCEPT !.selected_attributes =
                  Put(@, logical_name, mine \cup shown)]
    IN IF selection = << >> THEN s
       ELSE _autosave(_update_attributes_display(s1, logical_name))

\* _on_deselect_all_attrs with the fault of clearing the required keys too
_on_deselect_all_attrs_clearing(s) ==
    LET selection == s.selected_tree.selection
        logical_name == selection[1]
        s1 == [s EXCEPT !.selected_attributes = Put(@, logical_name, {})]
    IN IF selection = << >> THEN s
       ELSE _autosave(_update_attributes_display(s1, logical_name))

_on_deselect_all_attrs(s) ==
    LET selection == s.selected_tree.selection
        logical_name == selection[1]
        required == _get_required_attributes(s, logical_name)
        s1 == [s EXCEPT !.selected_attributes =
                  Put(@, logical_name, required)]
    IN IF selection = << >> THEN s
       ELSE _autosave(_update_attributes_display(s1, logical_name))

_apply_form_fields(s, logical_name, form_xml) ==
    LET form_fields == extract_fields_from_form_xml(form_xml)
        mine == Get(s.selected_attributes, logical_name, {})
        attributes == Get(s.table_attributes, logical_name, << >>)
        on_form == {a \in Range(attributes) : Lower(a) \in form_fields}
        required == _get_required_attributes(s, logical_name)
        s1 == [s EXCEPT !.selected_attributes =
                  Put(@, logical_name, mine \cup on_form \cup required)]
    IN _autosave(_update_attributes_display(s1, logical_name))

_on_select_form_attrs(s) ==
    LET selection == s.selected_tree.selection
        logical_name == selection[1]
        form_name == s.selected_tree.values[logical_name].form
        forms == Get(s.table_forms, logical_name, << >>)
        Named(f) == f.name = form_name
        form == FirstWhere(forms, Named, [formid |-> None])
    IN IF selection = << >> THEN s
       ELSE IF form_name \in NoFormNames THEN s
       ELSE IF form.formid = None THEN s
       ELSE IF form.formxml # << >>
       THEN _apply_form_fields(s, logical_name, form.formxml)
       ELSE Start(s, Task("form_xml", {logical_name}, form.formid))

_finish_form_edit(s, logical_name, form_name) ==
    LET s1 == [s EXCEPT !.selected_tree.values[logical_name].form = form_name]
        s2 == IF s1.selected_tree.selection = << logical_name >>
              THEN _update_attributes_display(s1, logical_name)
              ELSE s1
    IN [_autosave(s2) EXCEPT !.filter_editor = logical_name]

_finish_filter_edit(s, logical_name, view_name) ==
    LET views == Get(s.table_views, logical_name, << >>)
        Named(v) == v.name = view_name
        view == FirstWhere(views, Named, [savedqueryid |-> None])
        s1 == [s EXCEPT
                !.selected_views =
                    IF view.savedqueryid = None THEN @
                    ELSE Put(@, logical_name, view.savedqueryid),
                !.selected_tree.values[logical_name].view = view_name]
    IN _autosave(s1)

---------------------------------------------------------------------------
(* Connecting, and the table selector dialog.  The dialog is modal; once   *)
(* closed its widgets are destroyed, and a handler that touches one of     *)
(* them ends in a TclError.                                                *)

Raise(s) == [s EXCEPT !.raised = TRUE]

_on_connect(s) ==
    IF s.url_var = "" THEN s
    ELSE Start([s EXCEPT !.connect_btn = "disabled"],
               Task("connect", {}, None))

_load_tables_for_solution(s, solution_name) ==
    IF s.load_tables_btn # "none" /\ s.dialog = "closed" THEN Raise(s)
    ELSE Start([s EXCEPT !.load_tables_btn =
                   IF @ = "none" THEN @ ELSE "disabled"],
               Task("tables", {}, solution_name))

_on_connect_success(s) ==
    LET s1 == [s EXCEPT !.connect_btn = "normal", !.solution_values = TRUE]
        s2 == [s1 EXCEPT
                !.combo_values = TRUE,
                !.solution_var =
                    IF s1.settings.last_solution = Sol THEN SolCombo ELSE @]
        s3 == IF s1.dialog = "none" THEN s1 ELSE s2
    IN IF s1.dialog = "closed" THEN Raise(s1)
       ELSE IF s3.settings.last_solution # << >> /\ s3.selected_tables = << >>
       THEN _load_tables_for_solution(
                [s3 EXCEPT !.solution_var = s3.settings.last_solution],
                s3.settings.last_solution)
       ELSE s3

_on_connect_error(s) == [s EXCEPT !.connect_btn = "normal"]

_open_table_selector(s) ==
    IF ~s.client THEN s
    ELSE [s EXCEPT
            !.dialog = "open",
            !.load_tables_btn = "normal",
            !.combo_values = s.solution_values,
            !.solution_var =
                IF s.solutions /\ s.settings.last_solution = Sol
                THEN SolCombo ELSE @,
            !.tables_tree = << >>]

_on_load_tables(s) ==
    IF ~s.client THEN s
    ELSE IF s.solution_var = << >> THEN s
    ELSE _load_tables_for_solution(s, SolutionOf(s.solution_var))

\* the saved tables that the solution holds, in saved order
RECURSIVE TablesToAdd(_, _)
TablesToAdd(names, tbls) ==
    IF names = << >> THEN << >>
    ELSE IF Head(names) \in Range(tbls)
    THEN << Head(names) >> \o TablesToAdd(Tail(names), tbls)
    ELSE TablesToAdd(Tail(names), tbls)

_on_tables_loaded(s) ==
    LET s1 == [s EXCEPT
                !.load_tables_btn = IF @ = "none" THEN @ ELSE "normal",
                !.tables_tree = IF s.dialog = "none" THEN @ ELSE s.tables]
        tables_to_add == TablesToAdd(s1.settings.selected_tables, s1.tables)
    IN IF s.dialog = "closed" THEN Raise(s)
       ELSE IF tables_to_add # << >> THEN _add_tables_bulk(s1, tables_to_add)
       ELSE s1

_on_tables_error(s) ==
    IF s.dialog = "closed" THEN Raise(s)
    ELSE [s EXCEPT !.load_tables_btn = IF @ = "none" THEN @ ELSE "normal"]

\* selection: the rows picked in the dialog, in row order
_on_add_tables(s, selection) ==
    LET tables_to_add ==
            SelectSeq(selection,
                      LAMBDA k : ~InTable(s, k) /\ k \in Range(s.tables))
        s1 == IF Len(tables_to_add) = 1
              THEN _add_table_to_selection(s, tables_to_add[1])
              ELSE IF Len(tables_to_add) > 1
              THEN _add_tables_bulk(s, tables_to_add)
              ELSE s
    IN IF selection = << >> THEN s ELSE _autosave(s1)

---------------------------------------------------------------------------
(* Export *)

\* the locals of do_export before its try block: the metadata dictionary is
\* not built and the loop over selected_tables has not begun
NotBegun(project_name) ==
    [ProjectName |-> project_name, Environment |-> "", Solution |-> << >>,
     begun |-> FALSE, total_tables |-> 0, Tables |-> << >>]

_on_export(s) ==
    IF s.selected_tables = << >> THEN s
    ELSE IF s.project_var = "" THEN s
    ELSE Start([s EXCEPT !.export_btn = "disabled"],
               Task("export", {}, NotBegun(s.project_var)))

\* the entry do_export builds for one table; the form and view details are
\* fetched at export time and a failed detail fetch is passed over
ExportedTable(s, logical_name, details_ok) ==
    LET row == Get(s.selected_tree.values, logical_name,
                   [form |-> "", view |-> ""])
        forms == Get(s.table_forms, logical_name, << >>)
        views == Get(s.table_views, logical_name, << >>)
        FormShown(f) == f.name = row.form
        ViewShown(v) == v.name = row.view
        form == FirstWhere(forms, FormShown, [formid |-> None])
        view == FirstWhere(views, ViewShown, [savedqueryid |-> None])
        selected_attr_names == Get(s.selected_attributes, logical_name, {})
        all_attrs == Get(s.table_attributes, logical_name, << >>)
    IN [LogicalName |-> logical_name,
        Forms |->
            IF form.formid = None THEN << >>
            ELSE << [FormId |-> form.formid, FormName |-> form.name,
                     FieldCount |->
                         IF details_ok
                         THEN Cardinality(extract_fields_from_form_xml(
                                  FormXml(form.formid)))
                         ELSE 0] >>,
        View |->
            IF view.savedqueryid = None THEN << >>
            ELSE << [ViewId |-> view.savedqueryid, ViewName |-> view.name,
                     FetchXml |-> details_ok] >>,
        Attributes |->
            SelectSeq(all_attrs, LAMBDA a : a \in selected_attr_names)]

\* the locals of do_export once its loop has begun: the head of the metadata
\* dictionary and the size of selected_tables are read from the store s
Begun(s, locals) ==
    IF locals.begun THEN locals
    ELSE [locals EXCEPT
            !.begun = TRUE,
            !.Environment = s.url_var,
            !.Solution = IF s.solution_var # << >>
                         THEN SolutionOf(s.solution_var) ELSE << >>,
            !.total_tables = Len(s.selected_tables)]

\* the iterator of selected_tables.items() raises RuntimeError at its next
\* step when the size of the dict has changed since the loop began
SizeChanged(s, locals) ==
    Begun(s, locals).total_tables # Len(s.selected_tables)

\* one more pass of the loop of do_export, reading the store s
do_export_pass(s, locals, details_ok) ==
    LET begun == Begun(s, locals)
        logical_name == s.selected_tables[Len(begun.Tables) + 1]
    IN [begun EXCEPT
          !.Tables = Append(@, ExportedTable(s, logical_name, details_ok))]

\* the metadata dictionary do_export has built when it runs the rest of its
\* loop on the store s
Metadata(s, locals, ok) ==
    LET begun == Begun(s, locals)
        done == Len(begun.Tables)
    IN [Environment |-> begun.Environment,
        Solution |-> begun.Solution,
        ProjectName |-> begun.ProjectName,
        Tables |-> [i \in 1..Len(s.selected_tables) |->
                       IF i <= done THEN begun.Tables[i]
                       ELSE ExportedTable(s, s.selected_tables[i],
                                          s.selected_tables[i] \in ok)]]

_on_export_complete(s) == _save_settings([s EXCEPT !.export_btn = "normal"])

_on_export_error(s) == [s EXCEPT !.export_btn = "normal"]

---------------------------------------------------------------------------
(* Construction: AppSettings.load, MetadataCache.load, _restore_settings,  *)
(* _restore_from_cache                                                     *)

\* the output folder before any export
NoFiles == [dictionary |-> {}, url_file |-> {}]

Constructed(loaded, cached) ==
    [settings |-> loaded, loaded_settings |-> loaded,
     loaded_cache |-> cached, cache |-> cached,
     client |-> FALSE, solutions |-> FALSE, solution_values |-> FALSE,
     tables |-> << >>, selected_tables |-> << >>, table_forms |-> NoDict,
     table_views |-> NoDict, table_attributes |-> NoDict,
     selected_attributes |-> NoDict, selected_views |-> NoDict,
     table_load_state |-> NoDict, url_var |-> loaded.environment_url,
     solution_var |-> << >>, project_var |-> loaded.project_name,
     dialog |-> "none", combo_values |-> FALSE,
     load_tables_btn |-> "none", connect_btn |-> "normal",
     export_btn |-> "normal", exported |-> NoFiles,
     tables_tree |-> << >>,
     selected_tree |->
         [children |-> << >>, values |-> NoDict, selection |-> << >>],
     select_event |-> FALSE, attr_tree |-> {}, filter_editor |-> << >>,
     pending |-> << >>, raised |-> FALSE, settings_file |-> NoFile,
     cache_file |-> NoFile,
     disk |-> "ok",
     user_ops |-> 0]

RestoreOne(s, logical_name) ==
    LET cached_forms == Get(s.cache.table_forms, logical_name, << >>)
        cached_views == Get(s.cache.table_views, logical_name, << >>)
        cached_attrs == Get(s.cache.table_attributes, logical_name, << >>)
        s1 == [s EXCEPT !.selected_tables = Append(@, logical_name)]
        saved_attrs == Get(s.settings.table_attributes, logical_name, {})
        saved_view_id == Get(s.settings.table_views, logical_name, None)
        Default(v) == v.isdefault
        view_id ==
            IF saved_view_id # None THEN saved_view_id
            ELSE IF cached_views # << >>
            THEN FirstWhere(cached_views, Default, cached_views[1])
                     .savedqueryid
            ELSE None
        form_name ==
            IF cached_forms = << >> THEN "(no forms)"
            ELSE SelectForm(cached_forms,
                     Get(s.settings.table_forms, logical_name, None)).name
        Chosen(v) == v.savedqueryid = view_id
        sel_view == FirstWhere(cached_views, Chosen, [name |-> "(no views)"])
    IN [s1 EXCEPT
          !.table_forms = Put(@, logical_name, cached_forms),
          !.table_views = Put(@, logical_name, cached_views),
          !.table_attributes = Put(@, logical_name, cached_attrs),
          !.table_load_state = Put(@, logical_name,
              [attrs_loaded |-> Len(cached_attrs) > 0,
               forms_loaded |-> Len(cached_forms) > 0,
               views_loaded |-> Len(cached_views) > 0,
               attrs_loading |-> FALSE, forms_loading |-> FALSE,
               views_loading |-> FALSE]),
          !.selected_attributes = Put(@, logical_name,
              _get_required_attributes(s1, logical_name) \cup saved_attrs),
          !.selected_views =
              IF view_id = None THEN @ ELSE Put(@, logical_name, view_id),
          !.selected_tree =
              TreeInsert(@, logical_name, form_name, sel_view.name)]

RECURSIVE RestoreLoop(_, _)
RestoreLoop(s, names) ==
    IF names = << >> THEN s
    ELSE RestoreLoop(RestoreOne(s, Head(names)), Tail(names))

_restore_from_cache_unchecked(s) ==
    LET env_url == s.settings.environment_url
        solution == IF s.settings.last_solution # << >>
                    THEN s.settings.last_solution
                    ELSE s.cache.solution_name
        s1 == [s EXCEPT !.settings.last_solution = solution,
                        !.tables = s.cache.tables]
        s2 == [RestoreLoop(s1, s.cache.table_data)
                  EXCEPT !.solution_var = solution]
        children == s2.selected_tree.children
        s3 == IF children # << >>
              THEN _update_attributes_display(
                       selection_set(s2, children[1]), children[1])
              ELSE s2
    IN IF env_url = "" \/ solution = << >> THEN s
       ELSE _autosave(s3)

_restore_from_cache(s) ==
    LET env_url == s.settings.environment_url
        solution == IF s.settings.last_solution # << >>
                    THEN s.settings.last_solution
                    ELSE s.cache.solution_name
        s1 == [s EXCEPT !.settings.last_solution = solution,
                        !.tables = s.cache.tables]
        s2 == [RestoreLoop(s1, s.cache.table_data)
                  EXCEPT !.solution_var = solution]
        children == s2.selected_tree.children
        s3 == IF children # << >>
              THEN _update_attributes_display(
                       selection_set(s2, children[1]), children[1])
              ELSE s2
    IN IF env_url = "" \/ solution = << >> THEN s
       ELSE IF ~is_valid_for(s.cache, env_url, solution) THEN s
       ELSE _autosave(s3)

---------------------------------------------------------------------------
(* The state machine *)

\* history: the fetches that were in flight for a table when it was removed
\* (its key deleted from selected_tables, lines 1362-1363), none of whose
\* copies has been delivered since
Superseded(t) ==
    {e \in superseded
           \cup {<< task, k >> :
                     task \in {x \in DOMAIN pending :
                                  x.type \in {"bulk_attrs", "bulk_fv",
                                              "attrs"}},
                     k \in Range(selected_tables) \ Range(t.selected_tables)} :
        /\ e[2] \in e[1].keys
        /\ e[1] \in DOMAIN t.pending
        /\ e[1] \in DOMAIN pending => t.pending[e[1]] >= pending[e[1]]}

\* history: the metadata dictionaries that an export reading the whole store
\* at once, without the form and view details, would have built in each
\* state since the export in flight entered its loop
Exportable(t) ==
    LET exports == {x \in DOMAIN t.pending : x.type = "export" /\ x.arg.begun}
        project_name == (CHOOSE x \in exports : TRUE).arg.ProjectName
    IN IF exports = {} THEN {}
       ELSE exportable \cup {Metadata(t, NotBegun(project_name), {})}

Commit(t) ==
    /\ BagSize(t.pending) <= MaxPending
    /\ settings' = t.settings
    /\ loaded_settings' = t.loaded_settings
    /\ loaded_cache' = t.loaded_cache
    /\ cache' = t.cache
    /\ client' = t.client
    /\ solutions' = t.solutions
    /\ solution_values' = t.solution_values
    /\ tables' = t.tables
    /\ selected_tables' = t.selected_tables
    /\ table_forms' = t.table_forms
    /\ table_views' = t.table_views
    /\ table_attributes' = t.table_attributes
    /\ selected_attributes' = t.selected_attributes
    /\ selected_views' = t.selected_views
    /\ table_load_state' = t.table_load_state
    /\ url_var' = t.url_var
    /\ solution_var' = t.solution_var
    /\ project_var' = t.project_var
    /\ export_btn' = t.export_btn
    /\ exported' = t.exported
    /\ dialog' = t.dialog
    /\ combo_values' = t.combo_values
    /\ load_tables_btn' = t.load_tables_btn
    /\ connect_btn' = t.connect_btn
    /\ tables_tree' = t.tables_tree
    /\ selected_tree' = t.selected_tree
    /\ select_event' = t.select_event
    /\ attr_tree' = t.attr_tree
    /\ filter_editor' = t.filter_editor
    /\ pending' = t.pending
    /\ raised' = t.raised
    /\ settings_file' = t.settings_file
    /\ cache_file' = t.cache_file
    /\ disk' = t.disk
    /\ user_ops' = t.user_ops
    /\ superseded' = Superseded(t)
    /\ exportable' = Exportable(t)

\* __init__, from one of the given pairs of files
StartsFrom(found) ==
    \E files \in found :
        LET s == _restore_from_cache(
                     [Constructed(AppSettings_load(files[1]),
                                  MetadataCache_load(files[2]))
                         EXCEPT !.settings_file = files[1],
                                !.cache_file = files[2]])
        IN /\ settings = s.settings
           /\ loaded_settings = s.loaded_settings
           /\ loaded_cache = s.loaded_cache
           /\ cache = s.cache
           /\ client = s.client
           /\ solutions = s.solutions
           /\ solution_values = s.solution_values
           /\ tables = s.tables
           /\ selected_tables = s.selected_tables
           /\ table_forms = s.table_forms
           /\ table_views = s.table_views
           /\ table_attributes = s.table_attributes
           /\ selected_attributes = s.selected_attributes
           /\ selected_views = s.selected_views
           /\ table_load_state = s.table_load_state
           /\ url_var = s.url_var
           /\ solution_var = s.solution_var
           /\ project_var = s.project_var
           /\ export_btn = s.export_btn
           /\ exported = s.exported
           /\ dialog = s.dialog
           /\ combo_values = s.combo_values
           /\ load_tables_btn = s.load_tables_btn
           /\ connect_btn = s.connect_btn
           /\ tables_tree = s.tables_tree
           /\ selected_tree = s.selected_tree
           /\ select_event = s.select_event
           /\ attr_tree = s.attr_tree
           /\ filter_editor = s.filter_editor
           /\ pending = s.pending
           /\ raised = s.raised
           /\ settings_file = s.settings_file
           /\ cache_file = s.cache_file
           /\ disk = s.disk
           /\ user_ops = s.user_ops
           /\ superseded = {}
           /\ exportable = {}

Init == StartsFrom(FilesAtStart)

\* the state a user action starts from; a click elsewhere dismisses the
\* view editor
User ==
    [St EXCEPT !.raised = FALSE, !.user_ops = @ + 1, !.filter_editor = << >>]

\* the state a callback starts from, its task taken off the queue
Callback(task) ==
    [St EXCEPT !.raised = FALSE, !.pending = BagRemove(@, task)]

\* a queued <<TreeviewSelect>> event is handled before anything else
Idle == ~select_event

MayAct == Idle /\ user_ops < MaxUserOps
MainWindow == MayAct /\ dialog # "open"
Dialog == MayAct /\ dialog = "open"

Orders(S) == {o \in [1..Cardinality(S) -> S] : Range(o) = S}

(* user actions on the main window *)

TypeUrl ==
    /\ MainWindow /\ url_var = ""
    /\ Commit([User EXCEPT !.url_var = Url])

Connect ==
    /\ MainWindow /\ connect_btn = "normal"
    /\ Commit(_on_connect(User))

OpenTableSelector ==
    /\ MainWindow
    /\ Commit(_open_table_selector(User))

SelectTableRow ==
    /\ MainWindow
    /\ \E k \in Range(selected_tree.children) :
           Commit(_on_selected_table_click(
               [User EXCEPT !.selected_tree.selection = << k >>]))

RemoveTables ==
    /\ MainWindow
    /\ Commit(_on_remove_tables(User))

AttrClick ==
    /\ MainWindow
    /\ \E item_id \in attr_tree : Commit(_on_attr_click(User, item_id))

AttrToggle ==
    /\ MainWindow
    /\ \E selection \in {{i} : i \in attr_tree} \cup {attr_tree} :
           Commit(_on_attr_toggle(User, selection))

SelectAllAttrs ==
    /\ MainWindow
    /\ Commit(_on_select_all_attrs(User))

DeselectAllAttrs ==
    /\ MainWindow
    /\ Commit(_on_deselect_all_attrs(User))

SelectFormAttrs ==
    /\ MainWindow
    /\ Commit(_on_select_form_attrs(User))

\* the Edit cell of the selected row, then a name of the form combo box
FinishFormEdit ==
    /\ MainWindow
    /\ selected_tree.selection # << >>
    /\ LET logical_name == selected_tree.selection[1]
           forms == Get(table_forms, logical_name, << >>)
       IN \E i \in 1..Len(forms) :
              Commit(_finish_form_edit(User, logical_name, forms[i].name))

\* _show_filter_editor, then a name of the view combo box
FinishFilterEdit ==
    /\ MainWindow
    /\ filter_editor # << >>
    /\ LET logical_name == filter_editor
           views == Get(table_views, logical_name, << >>)
       IN \E i \in 1..Len(views) :
              Commit(_finish_filter_edit(User, logical_name, views[i].name))

TypeProject ==
    /\ MainWindow /\ project_var = ""
    /\ Commit([User EXCEPT !.project_var = ProjectTitle])

Export ==
    /\ MainWindow /\ export_btn = "normal"
    /\ Commit(_on_export(User))

(* user actions in the dialog *)

SelectSolution ==
    /\ Dialog /\ combo_values
    /\ \E picked \in {SolCombo, OtherCombo} :
           Commit([User EXCEPT !.solution_var = picked])

LoadTables ==
    /\ Dialog /\ load_tables_btn = "normal"
    /\ Commit(_on_load_tables(User))

AddTables ==
    /\ Dialog
    /\ \E picked \in (SUBSET Range(tables_tree)) \ {{}} :
           Commit(_on_add_tables(User,
               SelectSeq(tables_tree, LAMBDA k : k \in picked)))

CloseDialog ==
    /\ Dialog
    /\ Commit([User EXCEPT !.dialog = "closed"])

(* worker threads, each with the callback it hands to root.after; the      *)
(* callback runs as soon as the worker has finished                        *)

\* ThreadPoolExecutor(max_workers=5)
PoolSize == 5

Running(type) == {t \in DOMAIN pending : t.type = type}

\* the worker of task has called root.after with the callback named
Posted(s, task, callback) ==
    [s EXCEPT !.pending =
        BagAdd(BagRemove(@, task), [task EXCEPT !.type = callback])]

\* the ways do_connect can go: both calls succeed, authenticate_to_dataverse
\* raises, or get_unmanaged_solutions raises
ConnectOutcomes == {"connected", "not_authenticated", "no_solutions"}

\* do_connect, on its worker thread
do_connect(s, task, outcome) ==
    CASE outcome = "connected" ->
             Posted([s EXCEPT !.client = TRUE, !.solutions = TRUE],
                    task, "connect_success")
      [] outcome = "no_solutions" ->
             Posted([s EXCEPT !.client = TRUE], task, "connect_error")
      [] OTHER -> Posted(s, task, "connect_error")

\* do_load of _load_tables_for_solution, on its worker thread
do_load(s, task, fetched) ==
    IF fetched
    THEN Posted([s EXCEPT !.tables =
                    IF task.arg = Sol THEN SolutionTables ELSE << >>],
                task, "tables_loaded")
    ELSE Posted(s, task, "tables_error")

DoConnect ==
    \E task \in Running("connect"), outcome \in ConnectOutcomes :
        Commit(do_connect(St, task, outcome))

DoLoad ==
    \E task \in Running("tables"), fetched \in BOOLEAN :
        Commit(do_load(St, task, fetched))

ConnectSuccess ==
    /\ Idle
    /\ \E task \in Running("connect_success") :
           Commit(_on_connect_success(Callback(task)))

ConnectError ==
    /\ Idle
    /\ \E task \in Running("connect_error") :
           Commit(_on_connect_error(Callback(task)))

TablesLoaded ==
    /\ Idle
    /\ \E task \in Running("tables_loaded") :
           Commit(_on_tables_loaded(Callback(task)))

TablesError ==
    /\ Idle
    /\ \E task \in Running("tables_error") :
           Commit(_on_tables_error(Callback(task)))

\* a fetch succeeds only through a client; the keys in ok succeeded
Outcomes(keys) == IF client THEN SUBSET keys ELSE {{}}

AttrResults(order, ok) ==
    [i \in 1..Len(order) |->
        [key |-> order[i],
         data |-> IF order[i] \in ok THEN EntityAttributes(order[i])
                  ELSE << >>]]

FormsViewsResults(order, ok) ==
    [i \in 1..Len(order) |->
        [key |-> order[i],
         data |-> IF order[i] \in ok
                  THEN [forms |-> EntityForms(order[i]),
                        views |-> EntityViews(order[i])]
                  ELSE [forms |-> << >>, views |-> << >>]]]

BulkAttributesLoaded ==
    /\ Idle
    /\ \E task \in Running("bulk_attrs") :
           \E order \in Orders(task.keys), ok \in Outcomes(task.keys) :
               Commit(_on_bulk_attributes_loaded(Callback(task),
                                                 AttrResults(order, ok)))

AttributesLoaded ==
    /\ Idle
    /\ \E task \in Running("attrs") :
           \E logical_name \in task.keys :
               /\ client
               /\ Commit(_on_attributes_loaded(Callback(task), logical_name,
                                               EntityAttributes(logical_name)))

AttributesError ==
    /\ Idle
    /\ \E task \in Running("attrs") :
           \E logical_name \in task.keys :
               Commit(_on_attributes_error(Callback(task), logical_name))

BulkFormsViewsLoaded ==
    /\ Idle
    /\ \E task \in Running("bulk_fv") :
           \E order \in Orders(task.keys), ok \in Outcomes(task.keys) :
               Commit(_on_bulk_forms_views_loaded(Callback(task),
                                                  FormsViewsResults(order, ok)))

FormFieldsLoaded ==
    /\ Idle
    /\ \E task \in Running("form_xml") :
           \E logical_name \in task.keys :
               /\ client
               /\ Commit(_apply_form_fields(Callback(task), logical_name,
                                            FormXml(task.arg)))

FormFieldsError ==
    /\ Idle
    /\ \E task \in Running("form_xml") : Commit(Callback(task))

\* the steps of do_export that raise out of its try block
ExportFailures == {"metadata", "dictionary", "url_file"}

\* what do_export leaves on disk and hands to the UI thread: it runs the
\* rest of its loop on the store s; its calls of get_form_xml and
\* get_view_fetchxml succeeded for the tables in ok and were passed over
\* for the others; failed_at is the step that raised, or "none"
do_export(s, locals, ok, failed_at) ==
    [error |-> failed_at # "none",
     exported |->
         [dictionary |->
              IF failed_at \in {"none", "url_file"}
              THEN {Metadata(s, locals, ok)}
              ELSE s.exported.dictionary,
          url_file |->
              IF failed_at = "none" THEN {s.url_var}
              ELSE s.exported.url_file]]

\* the worker of an export goes through its loop once more, up to its next
\* remote call or the next switch of threads, while rows are left to read;
\* a step of SpecExporting: in the other specifications the worker runs its
\* loop without a switch of threads, when it completes
DoExport ==
    \E task \in Running("export"), details_ok \in {client, FALSE} :
        /\ ~SizeChanged(St, task.arg)
        /\ Len(task.arg.Tables) + 1 < Len(selected_tables)
        /\ Commit([St EXCEPT !.pending =
               BagAdd(BagRemove(@, task),
                      [task EXCEPT !.arg =
                          do_export_pass(St, @, details_ok)])])

ExportComplete ==
    /\ Idle
    /\ \E task \in Running("export"), ok \in Outcomes(Range(selected_tables)) :
           /\ ~SizeChanged(St, task.arg)
           /\ Commit(_on_export_complete(
               [Callback(task) EXCEPT !.exported =
                   do_export(St, task.arg, ok, "none").exported]))

ExportError ==
    /\ Idle
    /\ \E task \in Running("export"), ok \in Outcomes(Range(selected_tables)),
          failed_at \in ExportFailures :
           /\ SizeChanged(St, task.arg) => failed_at = "metadata"
           /\ Commit(_on_export_error(
               [Callback(task) EXCEPT !.exported =
                   do_export(St, task.arg, ok, failed_at).exported]))

TreeviewSelect ==
    /\ select_event
    /\ Commit(_on_selected_table_click(
           [St EXCEPT !.raised = FALSE, !.select_event = FALSE]))

Next ==
    \/ TypeUrl \/ Connect \/ OpenTableSelector \/ SelectTableRow
    \/ RemoveTables \/ AttrClick \/ AttrToggle \/ SelectAllAttrs
    \/ DeselectAllAttrs \/ SelectFormAttrs \/ FinishFormEdit
    \/ FinishFilterEdit \/ SelectSolution \/ LoadTables \/ AddTables
    \/ CloseDialog \/ DoConnect \/ DoLoad \/ ConnectSuccess \/ ConnectError
    \/ TablesLoaded \/ TablesError \/ BulkAttributesLoaded
    \/ AttributesLoaded \/ AttributesError \/ BulkFormsViewsLoaded
    \/ FormFieldsLoaded \/ FormFieldsError \/ TreeviewSelect
    \/ TypeProject \/ Export \/ ExportComplete \/ ExportError

(* the application directory stops being writable, or the disk fills up *)

DiskFails ==
    /\ disk = "ok"
    /\ \E d \in {"denied", "full"} : disk' = d
    /\ UNCHANGED << settings, loaded_settings, loaded_cache, cache, client,
                    solutions, solution_values, tables, selected_tables,
                    table_forms, table_views, table_attributes,
                    selected_attributes, selected_views, table_load_state,
                    url_var, solution_var, project_var, dialog,
                    combo_values, load_tables_btn, connect_btn, export_btn,
                    exported, tables_tree, selected_tree, select_event,
                    attr_tree, filter_editor, pending, raised,
                    settings_file, cache_file, superseded, exportable,
                    user_ops >>

NextOnFailingDisk == Next \/ DiskFails

Spec == Init /\ [][Next]_vars

---------------------------------------------------------------------------
(* Properties *)

AttrsLoaded(k) ==
    k \in DOMAIN table_load_state /\ table_load_state[k].attrs_loaded

Required(k) == {PrimaryIdAttribute(k), PrimaryNameAttribute(k)}

\* C1: every selected entity whose attributes are loaded, by fetch or by
\* cache restore, has its primary id and primary name attributes selected,
\* whatever attribute operations (click, toggle, Select All, Deselect All,
\* Select From Form) have been applied
C1_RequiredAlwaysSelected ==
    \A k \in Range(selected_tables) :
        AttrsLoaded(k) =>
            /\ k \in DOMAIN selected_attributes
            /\ Required(k) \subseteq selected_attributes[k]

\* C1 witness: a session whose saved selection of Account held custom_field
\* has reduced the loaded Account to exactly its required keys
C1_DeselectedToRequired ==
    /\ loaded_settings = SavedSettings
    /\ Account \in Range(selected_tables)
    /\ AttrsLoaded(Account)
    /\ table_attributes[Account] = EntityAttributes(Account)
    /\ selected_attributes[Account] = Required(Account)

\* the entry a map holds for k, if any
Lookup(d, k) == IF k \in DOMAIN d THEN {d[k]} ELSE {}

\* the entries the per-entity maps hold for k
EntryOf(s, k) ==
    << Lookup(s.table_attributes, k), Lookup(s.table_forms, k),
       Lookup(s.table_views, k), Lookup(s.selected_attributes, k),
       Lookup(s.selected_views, k), Lookup(s.table_load_state, k) >>

NoEntry == << {}, {}, {}, {}, {}, {} >>

\* the fetch tasks whose result can be delivered now
Deliverable(types) == {t \in DOMAIN pending : Idle /\ t.type \in types}

\* the states the delivery of the result of a fetch task can leave
DeliveriesOf(task) ==
    CASE task.type = "bulk_attrs" ->
             {_on_bulk_attributes_loaded(Callback(task),
                                         AttrResults(order, ok)) :
                  order \in Orders(task.keys), ok \in Outcomes(task.keys)}
      [] task.type = "bulk_fv" ->
             {_on_bulk_forms_views_loaded(Callback(task),
                                          FormsViewsResults(order, ok)) :
                  order \in Orders(task.keys), ok \in Outcomes(task.keys)}
      [] task.type = "attrs" ->
             {_on_attributes_error(Callback(task), k) : k \in task.keys}
                 \cup {_on_attributes_loaded(Callback(task), k,
                                             EntityAttributes(k)) :
                           k \in {x \in task.keys : client}}

FetchTypes == {"bulk_attrs", "bulk_fv", "attrs"}

Removed(task) == task.keys \ Range(selected_tables)

\* the load state differs at most in that the forms and views of the first
\* listed table have started loading
OnlyFirstRowStartedLoading(t) ==
    \/ t.table_load_state = table_load_state
    \/ /\ selected_tree.children # << >>
       /\ LET c == selected_tree.children[1]
          IN /\ c \in DOMAIN table_load_state
             /\ t.table_load_state =
                    [table_load_state EXCEPT ![c].forms_loading = TRUE,
                                             ![c].views_loading = TRUE]

\* C2 (as stated): the delivery of a fetch result all of whose tables have
\* been removed leaves every per-entity map unchanged and raises no error
C2_LateDeliveryChangesNothing ==
    \A task \in Deliverable(FetchTypes) :
        Removed(task) = task.keys =>
            \A t \in DeliveriesOf(task) :
                /\ t.table_attributes = table_attributes
                /\ t.table_forms = table_forms
                /\ t.table_views = table_views
                /\ t.selected_attributes = selected_attributes
                /\ t.selected_views = selected_views
                /\ t.table_load_state = table_load_state
                /\ ~t.raised

\* C2 (amended): the delivery of a fetch result leaves the entries of every
\* removed table of the fetch as they were, raises no error, and, when all
\* tables of the fetch have been removed, changes nothing in the maps but
\* the load state of the first listed table, whose forms and views may
\* start loading
C2_LateDeliveryKeepsRemoved ==
    \A task \in Deliverable(FetchTypes) :
        \A t \in DeliveriesOf(task) :
            /\ \A k \in Removed(task) : EntryOf(t, k) = EntryOf(St, k)
            /\ Removed(task) # {} => ~t.raised
            /\ Removed(task) = task.keys =>
                   /\ t.table_attributes = table_attributes
                   /\ t.table_forms = table_forms
                   /\ t.table_views = table_views
                   /\ t.selected_attributes = selected_attributes
                   /\ t.selected_views = selected_views
                   /\ OnlyFirstRowStartedLoading(t)

\* C2 witness: in a session restored from the offline cache, Account was
\* removed while its forms were being fetched; the delivery of that fetch
\* (the only step that selects a row without a user action) has selected
\* Project and nothing of Account is back
C2_DeliveredAfterRemove ==
    /\ loaded_settings = SavedSettings
    /\ user_ops = 1
    /\ selected_tables = << Project >>
    /\ selected_tree.selection = << Project >>
    /\ table_load_state[Project].forms_loading
    /\ EntryOf(St, Account) = NoEntry

\* C3 (as stated): no orphaned state: the keys of every per-entity map are
\* keys of selected_tables, in every reachable state
C3_NoOrphanedState ==
    \A m \in {DOMAIN table_attributes, DOMAIN table_forms, DOMAIN table_views,
              DOMAIN selected_attributes, DOMAIN selected_views,
              DOMAIN table_load_state} :
        m \subseteq Range(selected_tables)

\* what the delivery of a bulk task leaves, its fetches having completed in
\* the given order and those of the tables in ok having succeeded
Delivered(task, order, ok) ==
    IF task.type = "bulk_attrs"
    THEN _on_bulk_attributes_loaded(Callback(task), AttrResults(order, ok))
    ELSE _on_bulk_forms_views_loaded(Callback(task),
                                     FormsViewsResults(order, ok))

\* C4: when the result of a batch in which the fetch of a table f failed is
\* delivered, no error is raised and every other table of the batch has the
\* data, selection and load state it would have had without f in the batch
C4_FailureIsolated ==
    \A task \in Deliverable({"bulk_attrs", "bulk_fv"}) :
        \A order \in Orders(task.keys), ok \in Outcomes(task.keys) :
            /\ ~Delivered(task, order, ok).raised
            /\ \A f \in task.keys \ ok :
                   \A j \in task.keys \ {f} :
                       EntryOf(Delivered(task, order, ok), j) =
                           EntryOf(Delivered(task,
                                       SelectSeq(order, LAMBDA k : k # f),
                                       ok), j)

\* C4 witness: after the one connect of the session the batch for Account
\* and Project has been delivered, Account's fetch having failed and
\* Project's succeeded
C4_OneFailedOneLoaded ==
    /\ loaded_settings = SavedSettings
    /\ cache = EmptyCache
    /\ user_ops = 1
    /\ selected_tables = << Account, Project >>
    /\ AttrsLoaded(Account) /\ table_attributes[Account] = << >>
    /\ AttrsLoaded(Project)
    /\ table_attributes[Project] = EntityAttributes(Project)

\* the states the delivery of a successful attribute fetch of k can leave
AttrDeliveriesOf(task, k) ==
    IF task.type = "bulk_attrs"
    THEN {Delivered(task, order, ok) :
              order \in Orders(task.keys),
              ok \in {o \in Outcomes(task.keys) : k \in o}}
    ELSE {_on_attributes_loaded(Callback(task), k, EntityAttributes(k)) :
              x \in {y \in task.keys : client}}

\* C5 (as stated): when the result of a batch of attribute fetches is
\* applied, a table whose fetch failed is not marked attrs_loaded and a
\* table whose fetch succeeded is
C5_FailedNotLoaded ==
    \A task \in Deliverable({"bulk_attrs"}) :
        \A order \in Orders(task.keys), ok \in Outcomes(task.keys) :
            \A k \in task.keys \cap Range(selected_tables) :
                Delivered(task, order, ok).table_load_state[k].attrs_loaded
                    <=> k \in ok

\* C6 (as stated): when a successful attribute fetch of a table with a saved
\* selection is applied, the selection is the required keys and the saved
\* keys that are among the fetched attributes
C6_StaleSavedKeysDropped ==
    \A task \in Deliverable({"bulk_attrs", "attrs"}) :
        \A k \in task.keys \cap Range(selected_tables) :
            LET saved == Get(settings.table_attributes, k, {})
            IN saved # {} =>
                   \A t \in AttrDeliveriesOf(task, k) :
                       t.selected_attributes[k] =
                           Required(k)
                               \cup (saved \cap Range(EntityAttributes(k)))

RestoredAtStart ==
    Range(_restore_from_cache(Constructed(loaded_settings, loaded_cache))
              .selected_tables)

FormIds(forms) == {forms[i].formid : i \in 1..Len(forms)}
ViewIds(views) == {views[i].savedqueryid : i \in 1..Len(views)}

FormsLoaded(k) ==
    k \in DOMAIN table_load_state /\ table_load_state[k].forms_loaded

\* C8 (as stated): when the forms of a table added during the session are
\* loaded and the settings read at the start of the session name one of the
\* fetched forms for it, that form is the chosen one
C8_SavedFormChosen ==
    \A task \in Deliverable({"bulk_fv"}) :
        \A order \in Orders(task.keys), ok \in Outcomes(task.keys) :
            \A k \in (ok \cap Range(selected_tables)) \ RestoredAtStart :
                LET saved == Get(loaded_settings.table_forms, k, None)
                IN (~FormsLoaded(k) /\ saved \in FormIds(EntityForms(k))) =>
                       FormIdOfRow(Delivered(task, order, ok), k) = saved

\* the form shown for k when the forms are applied with the saved form id
\* absent from them: the first form, or the sentinel if there is none
FirstFormShown(t, k, forms, saved) ==
    IF forms = << >> THEN t.selected_tree.values[k].form = "(no forms)"
    ELSE saved \notin FormIds(forms) =>
             /\ t.selected_tree.values[k].form = forms[1].name
             /\ FormIdOfRow(t, k) = forms[1].formid

\* C9: when forms are applied to a table, by the delivery of a fetch or by
\* the restore from the cache, and the saved form id is none of them, the
\* first form in listing order is chosen, and the 'no forms' sentinel when
\* there is no form; no error is raised
C9_FirstFormOtherwise ==
    /\ \A task \in Deliverable({"bulk_fv"}) :
           \A order \in Orders(task.keys), ok \in Outcomes(task.keys) :
               \A k \in task.keys \cap Range(selected_tables) :
                   LET t == Delivered(task, order, ok)
                   IN /\ ~t.raised
                      /\ FirstFormShown(t, k,
                             IF k \in ok THEN EntityForms(k) ELSE << >>,
                             Get(settings.table_forms, k, None))
    /\ LET t == _restore_from_cache(Constructed(loaded_settings, loaded_cache))
       IN \A k \in Range(t.selected_tables) :
              /\ ~t.raised
              /\ FirstFormShown(t, k, Get(loaded_cache.table_forms, k, << >>),
                     Get(loaded_settings.table_forms, k, None))

\* C9 witness: the settings named form F1 for Account, the forms fetched
\* after the one connect of the session are F2 and F3, and F2 is shown
C9_FirstFormShown ==
    /\ loaded_settings = StaleSettings
    /\ loaded_cache = EmptyCache
    /\ user_ops = 1
    /\ FormsLoaded(Account)
    /\ FormIds(table_forms[Account]) = {"F2", "F3"}
    /\ FormIdOfRow(St, Account) = "F2"

\* the view chosen among views: the saved one, else the first default one,
\* else the first
ViewToChoose(views, saved) ==
    IF saved \in ViewIds(views) THEN saved
    ELSE IF \E i \in 1..Len(views) : views[i].isdefault
    THEN views[CHOOSE i \in 1..Len(views) :
                   views[i].isdefault
                       /\ \A j \in 1..(i - 1) : ~views[j].isdefault]
             .savedqueryid
    ELSE views[1].savedqueryid

\* C10 (as stated): when the views of a table are loaded, the chosen view is
\* the one the settings read at the start of the session saved for it if it
\* is among the fetched views, else the first default view, else the first
C10_SavedViewChosen ==
    \A task \in Deliverable({"bulk_fv"}) :
        \A order \in Orders(task.keys), ok \in Outcomes(task.keys) :
            \A k \in ok \cap Range(selected_tables) :
                ~FormsLoaded(k) =>
                    Lookup(Delivered(task, order, ok).selected_views, k) =
                        {ViewToChoose(EntityViews(k),
                             Get(loaded_settings.table_views, k, None))}

\* the environment urls and solution names is_valid_for is asked about
UrlsAsked == {"", Url}
SolutionsAsked == {<< >>, Sol}

\* C11: is_valid_for(u, s) is true exactly when the cache's environment_url
\* is u, its solution_name is s and its tables list is not empty; a cache
\* without tables is valid for no u and s
C11_ValidIffSameSourceAndTables ==
    \A c \in {cache, loaded_cache}, u \in UrlsAsked, s \in SolutionsAsked :
        /\ is_valid_for(c, u, s) <=>
               (c.environment_url = u /\ c.solution_name = s
                    /\ c.tables # << >>)
        /\ c.tables = << >> => ~is_valid_for(c, u, s)

\* C11 witness: the session began with a cache that is_valid_for accepted
\* for the saved url and solution and rejects for another solution, and
\* the cache has been rewritten since
C11_CacheAcceptedAtStart ==
    /\ loaded_cache = AccountCache
    /\ is_valid_for(loaded_cache, loaded_settings.environment_url,
                    loaded_settings.last_solution)
    /\ ~is_valid_for(loaded_cache, loaded_settings.environment_url, << >>)
    /\ selected_tables # << >>
    /\ cache # loaded_cache
    /\ is_valid_for(cache, Url, Sol)

\* the state the delivery of a fetch task's result leaves when it starts
\* from s, the fetches having completed in the given order and those of the
\* tables in ok having succeeded
DeliveredFrom(s, task, order, ok) ==
    LET c == [s EXCEPT !.raised = FALSE, !.pending = BagRemove(@, task)]
    IN CASE task.type = "bulk_attrs" ->
                _on_bulk_attributes_loaded(c, AttrResults(order, ok))
         [] task.type = "bulk_fv" ->
                _on_bulk_forms_views_loaded(c, FormsViewsResults(order, ok))
         [] task.type = "attrs" ->
                IF order[1] \in ok
                THEN _on_attributes_loaded(c, order[1],
                                           EntityAttributes(order[1]))
                ELSE _on_attributes_error(c, order[1])

\* a queued <<TreeviewSelect>> event is handled before the next callback
Settled(s) ==
    IF s.select_event
    THEN _on_selected_table_click(
             [s EXCEPT !.raised = FALSE, !.select_event = FALSE])
    ELSE s

\* what an outcome of a fetch task is: a completion order and the tables
\* whose fetch succeeded
OutcomesOf(task) == Orders(task.keys) \X Outcomes(task.keys)

\* the delivery of a with outcome x, then that of b with outcome y
OneThenOther(a, x, b, y) ==
    Settled(DeliveredFrom(Settled(DeliveredFrom(St, a, x[1], x[2])),
                          b, y[1], y[2]))

\* fetched data, selections, load states, chosen forms and views, and the
\* saved settings
StoreOf(s) ==
    << s.table_attributes, s.table_forms, s.table_views,
       s.selected_attributes, s.selected_views, s.table_load_state,
       s.selected_tree.values, s.settings >>

\* C12 (as stated): the results due for distinct selected tables leave the
\* same store, settings included, in whichever order they are applied: two
\* callbacks in either order, and the results of one batch in any completion
\* order
C12_OrderIndependent ==
    /\ \A a, b \in Deliverable(FetchTypes) :
           (/\ a # b
            /\ a.keys \cap b.keys = {}
            /\ (a.keys \cup b.keys) \subseteq Range(selected_tables)) =>
               \A x \in OutcomesOf(a), y \in OutcomesOf(b) :
                   StoreOf(OneThenOther(a, x, b, y)) =
                       StoreOf(OneThenOther(b, y, a, x))
    /\ \A task \in Deliverable({"bulk_attrs", "bulk_fv"}) :
           task.keys \subseteq Range(selected_tables) =>
               \A x, y \in OutcomesOf(task) :
                   x[2] = y[2] =>
                       StoreOf(Settled(DeliveredFrom(St, task, x[1], x[2]))) =
                           StoreOf(Settled(DeliveredFrom(St, task, y[1], y[2])))

\* the fetch tasks of the given types in flight for table k
InFlightFor(k, types) ==
    {t \in DOMAIN pending : t.type \in types /\ k \in t.keys}

AttrFetches == {"attrs", "bulk_attrs"}
FormsViewsFetches == {"bulk_fv"}

\* C13 (as stated): at no time are two fetches of the same kind, attributes
\* or forms and views, in flight for the same selected table
C13_NoDuplicateFetch ==
    \A k \in Range(selected_tables) :
        \A types \in {AttrFetches, FormsViewsFetches} :
            /\ Cardinality(InFlightFor(k, types)) <= 1
            /\ \A t \in InFlightFor(k, types) : pending[t] = 1

\* the load state of one kind of resource in a load-state record; the code
\* keeps no flag for a failed load
KindState(state, kind) ==
    IF kind = "attrs"
    THEN (IF state.attrs_loaded THEN "Loaded"
          ELSE IF state.attrs_loading THEN "Loading" ELSE "NotLoaded")
    ELSE IF kind = "forms"
    THEN (IF state.forms_loaded THEN "Loaded"
          ELSE IF state.forms_loading THEN "Loading" ELSE "NotLoaded")
    ELSE (IF state.views_loaded THEN "Loaded"
          ELSE IF state.views_loading THEN "Loading" ELSE "NotLoaded")

Kinds == {"attrs", "forms", "views"}

\* C14 (as stated): in every step, a table that stays selected becomes
\* Loaded in a kind of resource only from Loading, and does not go from
\* Loading back to NotLoaded
C14_OrderedTransitions ==
    [][\A k \in (DOMAIN table_load_state) \cap (DOMAIN table_load_state') :
           \A kind \in Kinds :
               LET old == KindState(table_load_state[k], kind)
                   new == KindState(table_load_state'[k], kind)
               IN /\ (new = "Loaded" /\ old # "Loaded") => old = "Loading"
                  /\ old = "Loading" => new # "NotLoaded"]_vars

\* C15 (as stated): a click or a toggle on the row of the primary id or
\* primary name attribute of the selected table leaves every table's
\* selected attributes as they are
C15_RequiredToggleIsNoOp ==
    selected_tree.selection # << >> =>
        LET k == selected_tree.selection[1]
        IN \A a \in Required(k) :
               (InTable(St, k) /\ ItemId(k, a) \in attr_tree) =>
                   /\ _on_attr_click(User, ItemId(k, a)).selected_attributes
                          = selected_attributes
                   /\ _on_attr_toggle(User, {ItemId(k, a)})
                          .selected_attributes = selected_attributes

\* table k has in t the entries, the row and the fetches in flight that it
\* has now
SameAsNow(t, k) ==
    /\ EntryOf(t, k) = EntryOf(St, k)
    /\ Lookup(t.selected_tree.values, k) = Lookup(selected_tree.values, k)
    /\ \A task \in DOMAIN t.pending :
           k \in task.keys =>
               /\ task \in DOMAIN pending
               /\ t.pending[task] <= pending[task]

\* C16 (as stated): adding a table that is already selected, by Add
\* Selected or by the bulk add of the saved tables when a tables list
\* arrives, leaves its data, selection, row and load state as they are and
\* starts no fetch for it
C16_AddIsIdempotent ==
    /\ Dialog =>
           \A picked \in (SUBSET Range(tables_tree)) \ {{}} :
               \A k \in picked \cap Range(selected_tables) :
                   SameAsNow(_on_add_tables(User,
                                 SelectSeq(tables_tree,
                                           LAMBDA x : x \in picked)), k)
    /\ \A task \in Deliverable({"tables_loaded"}) :
           \A k \in Range(selected_tables) :
               SameAsNow(_on_tables_loaded(Callback(task)), k)

\* the delivery from s of a result that was delivered before
Replayed(s, task, order, ok) ==
    DeliveredFrom([s EXCEPT !.pending = BagAdd(@, task)], task, order, ok)

\* C17: applying the result of a fetch a second time, straight after the
\* first or after the queued <<TreeviewSelect>> event, leaves the store and
\* the saved settings as the first application left them
C17_ReplayChangesNothing ==
    \A task \in Deliverable(FetchTypes) :
        task.keys \subseteq Range(selected_tables) =>
            \A x \in OutcomesOf(task) :
                LET once == DeliveredFrom(St, task, x[1], x[2])
                IN /\ StoreOf(Replayed(once, task, x[1], x[2]))
                          = StoreOf(once)
                   /\ StoreOf(Settled(Replayed(Settled(once), task,
                                               x[1], x[2])))
                          = StoreOf(Settled(once))

\* C17 witness: the attributes of Account arrived from a fetch and a second
\* result of the same fetch is due
C17_SecondResultDue ==
    /\ loaded_cache = EmptyCache
    /\ AttrsLoaded(Account)
    /\ table_attributes[Account] = EntityAttributes(Account)
    /\ \E task \in Deliverable(AttrFetches) : Account \in task.keys

\* the name of the form to show among forms, saved being the saved form id
FormNameToShow(forms, saved) ==
    IF forms = << >> THEN "(no forms)"
    ELSE IF saved \in FormIds(forms)
    THEN forms[CHOOSE i \in 1..Len(forms) :
                   forms[i].formid = saved
                       /\ \A j \in 1..(i - 1) : forms[j].formid # saved].name
    ELSE forms[1].name

\* what the delivery t of a result gave table k is what its fetched
\* attributes and its saved selection determine
AttributesDetermined(t, k, fetched) ==
    LET saved == Get(settings.table_attributes, k, {})
    IN t.selected_attributes[k] =
           Required(k) \cup (IF saved # {} THEN saved
                             ELSE StandardAttributes(fetched))

\* what the delivery t of a result gave table k is what its fetched forms
\* and views and its saved form and view determine
FormAndViewDetermined(t, k, forms, views) ==
    /\ t.selected_tree.values[k].form =
           FormNameToShow(forms, Get(settings.table_forms, k, None))
    /\ Lookup(t.selected_views, k) =
           IF views = << >> THEN Lookup(selected_views, k)
           ELSE {ViewToChoose(views, Get(settings.table_views, k, None))}

\* C18 (as stated): the selection, form and view a result gives a table are
\* determined by the table's fetched data and the settings saved for it,
\* and are the same whether or not the result of another table is applied
\* first
C18_Deterministic ==
    /\ \A task \in Deliverable(AttrFetches) :
           \A k \in task.keys \cap Range(selected_tables) :
               \A t \in AttrDeliveriesOf(task, k) :
                   AttributesDetermined(t, k, EntityAttributes(k))
    /\ \A task \in Deliverable(FormsViewsFetches) :
           \A x \in OutcomesOf(task) :
               \A k \in task.keys \cap Range(selected_tables) :
                   FormAndViewDetermined(
                       DeliveredFrom(St, task, x[1], x[2]), k,
                       IF k \in x[2] THEN EntityForms(k) ELSE << >>,
                       IF k \in x[2] THEN EntityViews(k) ELSE << >>)
    /\ \A a, b \in Deliverable(FetchTypes) :
           (/\ a # b
            /\ a.keys \cap b.keys = {}
            /\ (a.keys \cup b.keys) \subseteq Range(selected_tables)) =>
               \A x \in OutcomesOf(a), y \in OutcomesOf(b) :
                   \A k \in b.keys :
                       LET alone == DeliveredFrom(St, b, y[1], y[2])
                           after ==
                               DeliveredFrom(
                                   Settled(DeliveredFrom(St, a, x[1], x[2])),
                                   b, y[1], y[2])
                       IN /\ Lookup(after.selected_attributes, k) =
                                 Lookup(alone.selected_attributes, k)
                          /\ Lookup(after.selected_views, k) =
                                 Lookup(alone.selected_views, k)
                          /\ after.selected_tree.values[k] =
                                 alone.selected_tree.values[k]

\* C19 (as stated): a step writes an export file only when the attributes of
\* every selected table are loaded
C19_ExportOnlyWhenLoaded ==
    [][exported' # exported =>
           \A k \in Range(selected_tables) : AttrsLoaded(k)]_vars

\* the session as constructed from the files it found, before and after
\* _restore_from_cache
StartedFresh == Constructed(loaded_settings, loaded_cache)
StartedAs == _restore_from_cache(StartedFresh)

\* every table the cache holds is selected, with its cached metadata, and
\* is marked loaded in each kind of metadata the cache holds for it
CacheApplied(s) ==
    /\ s.selected_tables = loaded_cache.table_data
    /\ \A k \in Range(loaded_cache.table_data) :
           /\ s.table_attributes[k] = loaded_cache.table_attributes[k]
           /\ s.table_load_state[k].attrs_loaded =
                  (loaded_cache.table_attributes[k] # << >>)
           /\ s.table_load_state[k].forms_loaded =
                  (loaded_cache.table_forms[k] # << >>)
           /\ ~s.table_load_state[k].attrs_loading

\* the solution _restore_from_cache asks the cache about
SolutionAsked ==
    IF loaded_settings.last_solution # << >>
    THEN loaded_settings.last_solution
    ELSE loaded_cache.solution_name

\* C20 (as stated): a session whose cache is not valid for the url and the
\* solution its settings record starts as if there were no cache
C20_AppliedOnlyIfValidForSaved ==
    ~is_valid_for(loaded_cache, loaded_settings.environment_url,
                  loaded_settings.last_solution) =>
        StartedAs = StartedFresh

\* C20: the cache is applied at the start exactly when it is valid for the
\* url the settings record and for the solution they record or, when they
\* record none, the solution the cache itself names; otherwise the session
\* starts as if there were no cache, with no table restored
C20_AppliedIffValidForAsked ==
    /\ IF is_valid_for(loaded_cache, loaded_settings.environment_url,
                       SolutionAsked)
       THEN CacheApplied(StartedAs)
       ELSE StartedAs = StartedFresh /\ StartedAs.selected_tables = << >>
    /\ user_ops = 0 =>
           /\ selected_tables = StartedAs.selected_tables
           /\ \A k \in Range(selected_tables) :
                  AttrsLoaded(k) = StartedAs.table_load_state[k].attrs_loaded

\* C20 witness: the settings record a url and no solution, the cache names
\* its own, and the session has started with Account restored from the
\* cache and the cache's solution written to the settings
C20_RestoredForCacheSolution ==
    /\ loaded_settings = ConnectedSettings
    /\ loaded_cache = AccountCache
    /\ user_ops = 0
    /\ selected_tables = << Account >>
    /\ AttrsLoaded(Account)
    /\ settings.last_solution = Sol

\* files from which load cannot build a record
DamagedSettingsFiles == {Unreadable, NotJson, JsonArray, ForeignSettingsFile}
DamagedCacheFiles == {Unreadable, NotJson, JsonArray, ForeignCacheFile}

\* C21: from a file that is missing, cannot be opened, is not JSON or holds
\* a field the record does not have, load returns the default record; a
\* session that found such a file started from the defaults, with nothing
\* raised
C21_LoadNeverFails ==
    /\ \A file \in DamagedSettingsFiles \cup {NoFile} :
           AppSettings_load(file) = DefaultSettings
    /\ \A file \in DamagedCacheFiles \cup {NoFile} :
           MetadataCache_load(file) = EmptyCache
    /\ ~Accepts(DefaultSettings, settings_file) =>
           loaded_settings = DefaultSettings
    /\ ~Accepts(EmptyCache, cache_file) => loaded_cache = EmptyCache
    /\ (user_ops = 0 /\ pending = << >>) => ~raised

\* C21 witness: a session that found text that is not JSON in both files
\* started from the defaults and has connected, the files still as found
C21_StartedFromDefaults ==
    /\ settings_file = NotJson
    /\ cache_file = NotJson
    /\ loaded_settings = DefaultSettings
    /\ loaded_cache = EmptyCache
    /\ selected_tables = << >>
    /\ client
    /\ ~raised

\* the session state in memory: everything but the two files and the disk
InMemory(s) ==
    [s EXCEPT !.settings_file = NoFile, !.cache_file = NoFile, !.disk = "ok"]

OnDisk(s, d) == [s EXCEPT !.disk = d]

\* handler h leaves the same session in memory, with the same error flag,
\* whether the writes it makes fail as on disk d or succeed
SameInMemory(h(_), s, d) ==
    InMemory(h(OnDisk(s, d))) = InMemory(h(OnDisk(s, "ok")))

\* the session on a disk whose writes can fail
SpecOnFailingDisk ==
    StartsFrom(FilesOnFailingDisk) /\ [][NextOnFailingDisk]_vars

\* C22: a write of the settings or of the cache that fails, the directory
\* being unwritable or the disk full, raises nothing to the handler that
\* saved: while the disk is failing, every result due and every saving user
\* operation leaves the session in memory exactly as it does when the write
\* succeeds
C22_FailedWriteNotRaised ==
    disk \in {"denied", "full"} =>
        /\ \A task \in Deliverable(FetchTypes) :
               \A x \in OutcomesOf(task) :
                   LET Deliver(s) ==
                           Settled(DeliveredFrom(s, task, x[1], x[2]))
                   IN SameInMemory(Deliver, St, disk)
        /\ SameInMemory(_on_remove_tables, User, disk)
        /\ SameInMemory(_on_select_all_attrs, User, disk)
        /\ SameInMemory(_on_deselect_all_attrs, User, disk)
        /\ SameInMemory(_on_export_complete, St, disk)
        /\ SameInMemory(_save_settings, St, disk)
        /\ SameInMemory(_save_cache, St, disk)
        /\ \A item_id \in attr_tree :
               LET Click(s) == _on_attr_click(s, item_id)
               IN SameInMemory(Click, User, disk)
        /\ ~_save_settings(User).raised
        /\ ~_save_cache(User).raised

\* C22 witness: the disk filled up, a save left the settings file cut
\* short, and the session went on with both tables selected and Account's
\* attributes loaded, the settings in memory following the selection
C22_WentOnAfterFailedWrite ==
    /\ disk = "full"
    /\ settings_file = NotJson
    /\ ~raised
    /\ Len(selected_tables) = 2
    /\ settings.selected_tables = selected_tables
    /\ AttrsLoaded(Account)
    /\ settings.table_attributes = selected_attributes

\* the selection a record of settings holds
SelectionIn(record) ==
    [selected_tables |-> record.selected_tables,
     table_forms |-> record.table_forms,
     table_views |-> record.table_views,
     table_attributes |-> record.table_attributes]

\* the selection the session holds in memory: the entities listed, the
\* attributes ticked, the form and the view chosen for each
SelectionInMemory == SelectionIn(_save_settings(St).settings)

\* the selection the settings file holds
SelectionOnDisk ==
    IF settings_file.kind = "object" THEN SelectionIn(settings_file.data)
    ELSE SelectionIn(DefaultSettings)

\* C23: write-through: every step that changes the selection in memory (an
\* entity added or removed, an attribute ticked, a form or view chosen, a
\* fetch result applied) leaves the settings, in the record and on disk,
\* equal to the selection in memory
C23_WriteThrough ==
    [][SelectionInMemory' # SelectionInMemory =>
           /\ SelectionIn(settings') = SelectionInMemory'
           /\ SelectionOnDisk' = SelectionInMemory']_vars

\* what the settings file holds
SettingsOnDisk ==
    IF settings_file.kind = "object" THEN settings_file.data
    ELSE DefaultSettings

\* C24: the preferences saved for an entity outlast the sessions that do not
\* select it: whatever autosaves have run, an entity that had a saved form
\* id, view id or attribute list at the start and is not in the selection
\* now (never added, or removed) still has one in the settings file
C24_SavedPreferencesKept ==
    \A k \in Keys \ Range(selected_tables) :
        /\ k \in DOMAIN loaded_settings.table_forms
               => k \in DOMAIN SettingsOnDisk.table_forms
        /\ k \in DOMAIN loaded_settings.table_views
               => k \in DOMAIN SettingsOnDisk.table_views
        /\ k \in DOMAIN loaded_settings.table_attributes
               => k \in DOMAIN SettingsOnDisk.table_attributes

\* C25: a failed export is all or nothing: whenever an export is running,
\* each way it can go in which a step fails (a form or view detail fetch for
\* some table, the writing of either output file) ends in the error outcome
\* and leaves the output folder as it was
C25_FailedExportWritesNothing ==
    \A task \in Running("export") :
        \A ok \in Outcomes(Range(selected_tables)),
           failed_at \in ExportFailures \cup {"none"} :
            LET done == do_export(St, task.arg, ok, failed_at)
                DetailFetchFailed == ok # Range(selected_tables)
            IN (DetailFetchFailed \/ failed_at # "none") =>
                   /\ done.error
                   /\ done.exported = exported

\* the session state: every field but the queue of tasks and callbacks
SessionOf(s) == [s EXCEPT !.pending = << >>]

\* C26: single writer: the session state is changed by the UI thread only;
\* whichever way it goes, the worker of a connect or of a tables load calls
\* the remote client and posts its callback, and writes no field of the
\* session itself
C26_WorkersWriteNothing ==
    /\ \A task \in Running("connect") :
           \A outcome \in ConnectOutcomes :
               SessionOf(do_connect(St, task, outcome)) = SessionOf(St)
    /\ \A task \in Running("tables") :
           \A fetched \in BOOLEAN :
               SessionOf(do_load(St, task, fetched)) = SessionOf(St)

\* the remote calls the worker of a task has in flight at once: a batch
\* submits one call per table to an executor of its own, any other worker
\* makes its calls one at a time, and a worker that has posted its callback
\* makes none
CallsOf(task) ==
    CASE task.type \in {"bulk_attrs", "bulk_fv"} ->
             IF Cardinality(task.keys) < PoolSize
             THEN Cardinality(task.keys) ELSE PoolSize
      [] task.type \in {"connect_success", "connect_error",
                        "tables_loaded", "tables_error"} -> 0
      [] OTHER -> 1

RECURSIVE CallsInFlight(_)
CallsInFlight(b) ==
    IF DOMAIN b = {} THEN 0
    ELSE LET e == CHOOSE x \in DOMAIN b : TRUE
         IN b[e] * CallsOf(e)
                + CallsInFlight([x \in (DOMAIN b) \ {e} |-> b[x]])

\* C27: however many tables are added and batches started, the remote
\* calls in flight at one moment are never more than the pool size
C27_CallsWithinPool == CallsInFlight(pending) <= PoolSize

\* C28: the saves of a record are made one after the other, by the UI
\* thread: no worker writes the settings file or the cache file, and after
\* any sequence of saves each file holds the content of the last save
\* requested, so that loading it gives back the record in memory
C28_LastSaveOnDisk ==
    /\ AppSettings_load(settings_file) = settings
    /\ MetadataCache_load(cache_file) = cache
    /\ \A task \in Running("connect") :
           \A outcome \in ConnectOutcomes :
               LET w == do_connect(St, task, outcome)
               IN w.settings_file = settings_file /\ w.cache_file = cache_file
    /\ \A task \in Running("tables") :
           \A fetched \in BOOLEAN :
               LET w == do_load(St, task, fetched)
               IN w.settings_file = settings_file /\ w.cache_file = cache_file

\* C28 witness: several saves of the settings and one of the cache have
\* been made since the start, and both files hold the records in memory
C28_SavedSeveralTimes ==
    /\ user_ops >= 3
    /\ settings # loaded_settings
    /\ cache # loaded_cache
    /\ settings_file = JsonOf(settings)
    /\ cache_file = JsonOf(cache)
    /\ \E k \in DOMAIN settings.table_attributes :
           settings.table_attributes[k] # {}

\* the selected tables that a fetch task did not ask for
OthersOf(task) == Range(selected_tables) \ task.keys

\* C29 (as stated): the delivery of a fetch result, a refresh of a loaded
\* table included, changes the entries of the tables of the fetch only:
\* every other selected table keeps its fetched attributes, forms and views,
\* its selected attributes, its chosen view and its load state
C29_OnlyOwnEntriesChange ==
    \A task \in Deliverable(FetchTypes) :
        task.keys \subseteq Range(selected_tables) =>
            \A t \in DeliveriesOf(task) :
                \A j \in OthersOf(task) : EntryOf(t, j) = EntryOf(St, j)

\* C29 (amended): the delivery of a fetch result leaves every other
\* selected table its fetched attributes, forms and views, its selected
\* attributes and its chosen view; its load state is unchanged too, unless
\* no row was selected and it is the first listed table, which the delivery
\* selects: then its forms and views may start loading
C29_OthersKeepData ==
    \A task \in Deliverable(FetchTypes) :
        \A t \in DeliveriesOf(task) :
            \A j \in OthersOf(task) :
                /\ Lookup(t.table_attributes, j) = Lookup(table_attributes, j)
                /\ Lookup(t.table_forms, j) = Lookup(table_forms, j)
                /\ Lookup(t.table_views, j) = Lookup(table_views, j)
                /\ Lookup(t.selected_attributes, j) =
                       Lookup(selected_attributes, j)
                /\ Lookup(t.selected_views, j) = Lookup(selected_views, j)
                /\ \/ Lookup(t.table_load_state, j) =
                          Lookup(table_load_state, j)
                   \/ /\ selected_tree.selection = << >>
                      /\ j = selected_tree.children[1]
                      /\ j \in DOMAIN table_load_state
                      /\ ~table_load_state[j].forms_loaded
                      /\ t.table_load_state[j] =
                             [table_load_state[j] EXCEPT
                                 !.forms_loading = TRUE,
                                 !.views_loading = TRUE]

\* C29 witness: with Account and Project listed and no row selected, the
\* attributes fetched for Project alone were applied: Project is loaded,
\* Account, the first row, has been selected and its forms and views have
\* started loading, and nothing else of Account has changed
C29_AppliedForProjectOnly ==
    /\ selected_tables = << Account, Project >>
    /\ AttrsLoaded(Project)
    /\ table_attributes[Project] = EntityAttributes(Project)
    /\ selected_tree.selection = << Account >>
    /\ table_load_state[Account] =
           [NewLoadState(TRUE) EXCEPT !.forms_loading = TRUE,
                                      !.views_loading = TRUE]
    /\ Account \notin DOMAIN table_attributes
    /\ selected_attributes[Account] = {}

\* C30: the autosaves that run while a selected table is not yet loaded
\* leave the choices saved for it in place: as long as its attributes have
\* not been loaded the settings hold the attribute list saved for it at the
\* start, and as long as its forms and views have not been loaded they hold
\* the form id and the view id saved for it, for the reconciliation to use
C30_SavedChoicesKeptUntilLoaded ==
    \A k \in Range(selected_tables) \cap DOMAIN table_load_state :
        /\ (/\ ~table_load_state[k].attrs_loaded
            /\ k \in DOMAIN loaded_settings.table_attributes) =>
               Lookup(settings.table_attributes, k) =
                   Lookup(loaded_settings.table_attributes, k)
        /\ (/\ ~table_load_state[k].forms_loaded
            /\ k \in DOMAIN loaded_settings.table_forms) =>
               Lookup(settings.table_forms, k) =
                   Lookup(loaded_settings.table_forms, k)
        /\ (/\ ~table_load_state[k].views_loaded
            /\ k \in DOMAIN loaded_settings.table_views) =>
               Lookup(settings.table_views, k) =
                   Lookup(loaded_settings.table_views, k)

\* the tables list that get_solution_tables gives for a solution
TablesFetchedFrom(solution) ==
    IF solution = Sol THEN SolutionTables ELSE << >>

\* C31: the identity stored in the cache is that of the source its data was
\* fetched from: whatever is_valid_for accepts the cache for, a url and a
\* solution, the cached tables list is the one fetched from that solution
\* and every cached table is one of its tables, also after the solution
\* selection was changed without a reload
C31_CacheIdentityIsItsSource ==
    \A u \in UrlsAsked, s \in SolutionsAsked \cup {SolutionOf(OtherCombo)} :
        is_valid_for(cache, u, s) =>
            /\ cache.tables = TablesFetchedFrom(s)
            /\ Range(cache.table_data) \subseteq Range(TablesFetchedFrom(s))

\* the session that starts from the files this one leaves when its window
\* is closed now: _on_close saves the settings, and the next __init__ loads
\* both records and restores from the cache
NextSession ==
    LET closed == _save_settings(St)
    IN _restore_from_cache(
           Constructed(AppSettings_load(closed.settings_file),
                       MetadataCache_load(closed.cache_file)))

\* C32: no resurrection across sessions: a table that was selected when
\* this session started and has been removed since is not among the tables
\* that the next session restores from the cache
C32_NoResurrection ==
    \A k \in Range(StartedAs.selected_tables) \ Range(selected_tables) :
        k \notin Range(NextSession.selected_tables)

\* C33: the view chosen for a selected table is one of the views the
\* session holds for that table, in every reachable state
C33_ChosenViewExists ==
    \A k \in Range(selected_tables) \cap DOMAIN selected_views :
        \E i \in 1..Len(Get(table_views, k, << >>)) :
            table_views[k][i].savedqueryid = selected_views[k]

(* A session in which a table is removed and selected again: the user       *)
(* removes the table restored from the cache, connects, opens the table     *)
(* selector, loads the tables of the solution and adds tables               *)

NextReselecting ==
    \/ TreeviewSelect \/ RemoveTables \/ Connect \/ DoConnect
    \/ ConnectSuccess \/ ConnectError \/ OpenTableSelector \/ LoadTables
    \/ DoLoad \/ TablesLoaded \/ TablesError \/ AddTables
    \/ BulkAttributesLoaded \/ AttributesLoaded \/ AttributesError
    \/ BulkFormsViewsLoaded

SpecReselecting ==
    /\ StartsFrom({<< JsonOf(SavedSettings), JsonOf(OfflineAccountCache) >>})
    /\ [][NextReselecting]_vars

\* the kinds of resource a fetch task brings
KindsOf(task) ==
    IF task.type = "bulk_fv" THEN {"forms", "views"} ELSE {"attrs"}

\* C34 (as stated): when a table was removed while a fetch for it was in
\* flight and has been selected again since, the delivery of that earlier
\* fetch is not applied to it: its listings and its selection stay as they
\* are, and in the kinds of resource the fetch brings it remains in the load
\* state it is in (Loading, until its own fetch is delivered)
C34_EarlierResultNotApplied ==
    \A e \in superseded :
        LET task == e[1]
            k == e[2]
        IN (/\ task \in Deliverable(FetchTypes)
            /\ pending[task] = 1
            /\ k \in Range(selected_tables)
            /\ k \in DOMAIN table_load_state) =>
               \A t \in DeliveriesOf(task) :
                   /\ Lookup(t.table_attributes, k)
                          = Lookup(table_attributes, k)
                   /\ Lookup(t.table_forms, k) = Lookup(table_forms, k)
                   /\ Lookup(t.table_views, k) = Lookup(table_views, k)
                   /\ Lookup(t.selected_attributes, k)
                          = Lookup(selected_attributes, k)
                   /\ Lookup(t.selected_views, k) = Lookup(selected_views, k)
                   /\ k \in DOMAIN t.table_load_state
                   /\ \A kind \in KindsOf(task) :
                          KindState(t.table_load_state[k], kind)
                              = KindState(table_load_state[k], kind)

\* the worker tasks that are in flight in t and were not in s
StartedBetween(s, t) ==
    {f \in DOMAIN t.pending :
        f \notin DOMAIN s.pending \/ t.pending[f] > s.pending[f]}

\* C35 (as stated): the delivery of a fetch result starts no fetch for a
\* table that is not selected; in particular the delivery of a bulk
\* attribute result that holds a removed table starts no forms and views
\* fetch for it
C35_NoFetchForUnselected ==
    \A task \in Deliverable(FetchTypes) :
        \A t \in DeliveriesOf(task) :
            \A f \in StartedBetween(Callback(task), t) :
                f.type \in FetchTypes => f.keys \subseteq Range(t.selected_tables)

\* the session as __init__ leaves it before it restores from the cache
BeforeRestore == Constructed(loaded_settings, loaded_cache)

\* the session had the tables of the cache been added and the listings of
\* the cache been delivered as fetch results, under the same settings
FetchedInstead ==
    LET names == loaded_cache.table_data
        added == AddRows(BeforeRestore, names, TRUE)
        attrs == BulkAttrsLoop(added,
                     [i \in 1..Len(names) |->
                         [key |-> names[i],
                          data |-> Get(loaded_cache.table_attributes,
                                       names[i], << >>)]])
    IN BulkFormsViewsLoop(attrs,
           [i \in 1..Len(names) |->
               [key |-> names[i],
                data |-> [forms |-> Get(loaded_cache.table_forms,
                                        names[i], << >>),
                          views |-> Get(loaded_cache.table_views,
                                        names[i], << >>)]]])

\* the selected attributes, the form shown and the chosen view of a table
SelectionStateOf(s, k) ==
    << Lookup(s.selected_attributes, k), s.selected_tree.values[k].form,
       Lookup(s.selected_views, k) >>

\* C36 (as stated): a session restored from the cache has, for every
\* restored table, the selected attributes, the chosen form and the chosen
\* view that the delivery of the same listings as fetch results gives under
\* the same settings
C36_RestoreAsFetch ==
    LET restored == _restore_from_cache(BeforeRestore)
    IN restored.selected_tables # << >> =>
           \A k \in Range(restored.selected_tables) :
               SelectionStateOf(restored, k) = SelectionStateOf(FetchedInstead, k)

(* A session in which the export worker and the UI thread take turns: the   *)
(* worker runs its loop row by row while the user selects rows, removes     *)
(* tables, toggles attributes and connects                                  *)

NextExporting ==
    \/ TreeviewSelect \/ SelectTableRow \/ RemoveTables \/ AttrClick
    \/ SelectAllAttrs \/ DeselectAllAttrs \/ Connect \/ DoConnect
    \/ ConnectSuccess \/ ConnectError \/ BulkFormsViewsLoaded
    \/ Export \/ DoExport \/ ExportComplete \/ ExportError

SpecExporting ==
    /\ StartsFrom({<< JsonOf(SavedSettings), JsonOf(OfflineCache) >>})
    /\ [][NextExporting]_vars

\* an exported table without the form and view details fetched at export
Undetailed(entry) ==
    [entry EXCEPT
        !.Forms = [i \in DOMAIN @ |-> [@[i] EXCEPT !.FieldCount = 0]],
        !.View = [i \in DOMAIN @ |-> [@[i] EXCEPT !.FetchXml = FALSE]]]

\* C37 (as stated): whenever an export can complete, the metadata dictionary
\* it writes is, but for the details fetched at export, the one a read of
\* the whole store at one instant gives, at some instant since its worker
\* entered its loop
C37_ExportedAtOneInstant ==
    \A task \in Running("export") :
        (Idle /\ ~SizeChanged(St, task.arg)) =>
            \A ok \in Outcomes(Range(selected_tables)) :
                LET written == Metadata(St, task.arg, ok)
                IN [written EXCEPT
                       !.Tables = [i \in DOMAIN @ |-> Undetailed(@[i])]]
                       \in exportable
                              \cup {Metadata(St, NotBegun(task.arg.ProjectName),
                                             {})}

\* C38 (as stated): when the user picks a form in the form editor of the
\* selected table, or a view in its view editor, the selection in memory,
\* the saved settings and the settings file record the id of the form or
\* view picked, also when another form or view of the table has its name
C38_ChoiceRecorded ==
    MainWindow =>
        /\ \A k \in Range(selected_tree.selection) :
               LET forms == Get(table_forms, k, << >>)
               IN \A i \in 1..Len(forms) :
                      LET t == _finish_form_edit(User, k, forms[i].name)
                      IN /\ Lookup(_get_selected_forms(t), k)
                                = {forms[i].formid}
                         /\ Lookup(t.settings.table_forms, k)
                                = {forms[i].formid}
                         /\ Lookup(t.settings_file.data.table_forms, k)
                                = {forms[i].formid}
        /\ filter_editor # << >> =>
               LET k == filter_editor
                   views == Get(table_views, k, << >>)
               IN \A i \in 1..Len(views) :
                      LET t == _finish_filter_edit(User, k, views[i].name)
                      IN /\ Lookup(t.selected_views, k)
                                = {views[i].savedqueryid}
                         /\ Lookup(t.settings.table_views, k)
                                = {views[i].savedqueryid}
                         /\ Lookup(t.settings_file.data.table_views, k)
                                = {views[i].savedqueryid}

(* Liveness, in the sessions in which the user connects, loads the tables   *)
(* of a solution, adds tables, selects rows and removes tables.  Every      *)
(* remote call returns or fails, every worker goes on to post its callback, *)
(* and the UI thread handles every queued callback and event; the user is   *)
(* under no obligation to act                                               *)

NextLoading ==
    \/ TreeviewSelect \/ Connect \/ OpenTableSelector \/ LoadTables
    \/ AddTables \/ CloseDialog \/ SelectTableRow \/ RemoveTables
    \/ DoConnect \/ DoLoad \/ ConnectSuccess \/ ConnectError
    \/ TablesLoaded \/ TablesError \/ BulkAttributesLoaded
    \/ AttributesLoaded \/ AttributesError \/ BulkFormsViewsLoaded

\* the handler's outcome t can be committed
Fits(t) == BagSize(t.pending) <= MaxPending

\* the conditions under which each step is enabled, as state predicates
TreeviewSelectDue ==
    /\ select_event
    /\ Fits(_on_selected_table_click(
           [St EXCEPT !.raised = FALSE, !.select_event = FALSE]))

DoConnectDue ==
    \E task \in Running("connect"), outcome \in ConnectOutcomes :
        Fits(do_connect(St, task, outcome))

DoLoadDue ==
    \E task \in Running("tables"), fetched \in BOOLEAN :
        Fits(do_load(St, task, fetched))

ConnectSuccessDue ==
    /\ Idle
    /\ \E task \in Running("connect_success") :
           Fits(_on_connect_success(Callback(task)))

ConnectErrorDue ==
    /\ Idle
    /\ \E task \in Running("connect_error") :
           Fits(_on_connect_error(Callback(task)))

TablesLoadedDue ==
    /\ Idle
    /\ \E task \in Running("tables_loaded") :
           Fits(_on_tables_loaded(Callback(task)))

TablesErrorDue ==
    /\ Idle
    /\ \E task \in Running("tables_error") :
           Fits(_on_tables_error(Callback(task)))

AttributesDue ==
    /\ Idle
    /\ \E task \in Running("attrs") :
           \E logical_name \in task.keys :
               Fits(_on_attributes_error(Callback(task), logical_name))

BulkAttributesDue ==
    /\ Idle
    /\ \E task \in Running("bulk_attrs") :
           \E order \in Orders(task.keys), ok \in Outcomes(task.keys) :
               Fits(_on_bulk_attributes_loaded(Callback(task),
                                               AttrResults(order, ok)))

BulkFormsViewsDue ==
    /\ Idle
    /\ \E task \in Running("bulk_fv") :
           \E order \in Orders(task.keys), ok \in Outcomes(task.keys) :
               Fits(_on_bulk_forms_views_loaded(Callback(task),
                                                FormsViewsResults(order, ok)))

\* the event loop runs every posted callback and every worker thread runs:
\* weak fairness of each step, WF_vars(A), written out as
\* []<>~(ENABLED <<A>>_vars) \/ []<><<A>>_vars (no step stutters: each
\* takes a task out of pending or clears select_event)
Fairness ==
    /\ ([]<>(~TreeviewSelectDue) \/ []<><<TreeviewSelect>>_vars)
    /\ ([]<>(~DoConnectDue) \/ []<><<DoConnect>>_vars)
    /\ WF_vars(DoLoad)
    /\ ([]<>(~ConnectSuccessDue) \/ []<><<ConnectSuccess>>_vars)
    /\ ([]<>(~ConnectErrorDue) \/ []<><<ConnectError>>_vars)
    /\ ([]<>(~TablesLoadedDue) \/ []<><<TablesLoaded>>_vars)
    /\ ([]<>(~TablesErrorDue) \/ []<><<TablesError>>_vars)
    /\ ([]<>(~AttributesDue) \/ []<><<AttributesLoaded \/ AttributesError>>_vars)
    /\ ([]<>(~BulkAttributesDue) \/ []<><<BulkAttributesLoaded>>_vars)
    /\ ([]<>(~BulkFormsViewsDue) \/ []<><<BulkFormsViewsLoaded>>_vars)

FairSpec ==
    /\ StartsFrom({<< JsonOf(SavedSettings), NoFile >>,
                   << JsonOf(SavedSettings), JsonOf(OfflineCache) >>,
                   << JsonOf(SavedSettings), JsonOf(OfflineAccountCache) >>})
    /\ [][NextLoading]_vars
    /\ Fairness

\* the table is selected and is Loading in the kind of resource
Loading(k, kind) ==
    /\ k \in DOMAIN table_load_state
    /\ KindState(table_load_state[k], kind) = "Loading"

\* C39 (as stated): a selected table that is Loading in a kind of resource
\* eventually is Loading in it no more, or is removed
C39_LoadingEnds ==
    \A k \in Keys : \A kind \in Kinds :
        Loading(k, kind) ~> ~Loading(k, kind)

\* a table whose attributes have arrived is loading its forms, and a second
\* table is still loading its attributes
C39_LoadingInTurn ==
    \E k \in Keys : \E other \in Keys \ {k} :
        /\ Loading(k, "forms")
        /\ ~Loading(k, "attrs")
        /\ Loading(other, "attrs")

=============================================================================
